---- MODULE Spec2Model ----
(***************************************************************************)
(* Verification model of the rule-resolution core of                       *)
(* apache-commons-validator-python: Form inheritance (Form.py), FormSet    *)
(* processing (FormSet.py), locale fallback lookup                         *)
(* (validator_resources.py) and the per-field validation pass              *)
(* (Form.validate, ValidatorAction, ValidatorResult).                      *)
(*                                                                         *)
(* Cross-file references are read as bound to the definitions they name:   *)
(* FormSet.process calls the Form processing routine (Form._process) and   *)
(* Form.validate uses the ValidatorResults / ValidatorException classes.   *)
(***************************************************************************)
EXTENDS Integers, Sequences, FiniteSets, TLC

(* ---------------------------------------------------------------------- *)
(* Bounds                                                                  *)
(* ---------------------------------------------------------------------- *)
\* most fields one Form may declare through add_field
MaxOwn == 2
\* most fields declared in the whole FormSet
MaxTotal == 3
\* depth at which the interpreter gives up a recursion (RecursionError)
RecursionLimit == 4

(* ---------------------------------------------------------------------- *)
(* Values                                                                  *)
(* ---------------------------------------------------------------------- *)
NoneV == "None"
FormNames == {"base", "mid", "derived"}
\* a name no Form of the FormSet carries
Ghost == "ghost"
Keys == {"A", "B"}
Pages == {0, 1}

VARIABLES
    forms,        \* FormSet._forms: Form name -> Form
    procLog,      \* Field object -> the Field.process calls it received (first argument of each)
    fsProcessed,  \* FormSet._processed
    last,         \* how the last call ended: Returned, or the error it raised and the Form whose _process raised it
    hFormSets,       \* ValidatorResources._h_form_sets: locale key -> FormSet
    defaultFormSet,  \* ValidatorResources._default_form_set
    got,             \* the last call on the resources: its arguments and how it ended
    vform,        \* the Form a Validator has resolved
    actions,      \* ValidatorResources._h_actions: name -> ValidatorAction
    vout,         \* the last Form.validate call: arguments, fields validated, invocations, results
    results,      \* ValidatorResults objects: object -> its _h_results (field key -> ValidatorResult object id)
    rheap,        \* ValidatorResult objects: id -> its _h_action with the dict's key order
    rcall,        \* the last call on a ValidatorResults object and what it returned
    reqs,         \* validation requests in progress: request -> its Validator's state
    routine,      \* the last call on a validator of the routines package: validator, input, what it returned
    domainValidator,  \* DomainValidator's class attributes and the calls its threads are in
    defaultValidator  \* a default validator's class attribute _VALIDATOR and the get_instance calls its threads are in

formVars == <<forms, procLog, fsProcessed, last>>
resVars == <<hFormSets, defaultFormSet, got>>
resultVars == <<results, rheap, rcall>>
valVars == <<vform, actions, vout, results, rheap, rcall, reqs>>
threadVars == <<domainValidator, defaultValidator>>
vars == <<forms, procLog, fsProcessed, last, hFormSets, defaultFormSet, got,
          vform, actions, vout, results, rheap, rcall, reqs, routine,
          domainValidator, defaultValidator>>

(* ---------------------------------------------------------------------- *)
(* Sequence helpers (list operations of the host language)                 *)
(* ---------------------------------------------------------------------- *)
Range(s) == {s[i] : i \in 1..Len(s)}

\* list.insert(n, x) with 0-based n
InsertAt(s, n, x) == SubSeq(s, 1, n) \o <<x>> \o SubSeq(s, n + 1, Len(s))

\* index of the first element equal to x, 0 when absent
FirstIndex(s, x) ==
    IF x \in Range(s) THEN CHOOSE i \in 1..Len(s) : s[i] = x /\ \A j \in 1..(i - 1) : s[j] # x
    ELSE 0

\* list.remove(x): drops the first occurrence
RemoveFirst(s, x) ==
    LET i == FirstIndex(s, x)
    IN IF i = 0 THEN s ELSE SubSeq(s, 1, i - 1) \o SubSeq(s, i + 1, Len(s))

\* dict[key] = value
Put(h, k, v) == [x \in (DOMAIN h) \cup {k} |-> IF x = k THEN v ELSE h[x]]

\* dict.pop(key, None)
Pop(h, k) == [x \in (DOMAIN h) \ {k} |-> h[x]]

\* dict.update(other)
Update(h, o) == [x \in (DOMAIN h) \cup (DOMAIN o) |-> IF x \in DOMAIN o THEN o[x] ELSE h[x]]

EmptyMap == [x \in {} |-> NoneV]

\* Python's None where an object is expected
NoneObj == [none |-> TRUE]

(* ---------------------------------------------------------------------- *)
(* Form                                                                    *)
(* ---------------------------------------------------------------------- *)
\* Form.__init__ followed by set_extends(inherit)
NewForm(inherit) ==
    [lFields |-> <<>>, hFields |-> EmptyMap, inherit |-> inherit, processed |-> FALSE]

\* a Field object: its key, the Form that declared it, a serial that tells
\* apart objects of equal key, its page and its depends string
NewField(key, owner, n, page, depends) ==
    [key |-> key, owner |-> owner, n |-> n, page |-> page, depends |-> depends]

\* Form.add_field
add_field(form, field) ==
    [form EXCEPT !.lFields = Append(@, field),
                 !.hFields = Put(@, field.key, field)]

\* Form.contains_field
contains_field(form, key) == key \in DOMAIN form.hFields

\* Form.is_extending
is_extending(form) == form.inherit # NoneV

\* Form._merge, the loop over depends.get_fields(): st carries this Form's
\* list and map and the two temporaries
RECURSIVE MergeLoop(_, _, _)
MergeLoop(st, dfields, i) ==
    IF i > Len(dfields) THEN st
    ELSE LET df == dfields[i]
             k == df.key
         IN IF k \notin DOMAIN st.h
            THEN MergeLoop([st EXCEPT !.tl = Append(@, df), !.th = Put(@, k, df)], dfields, i + 1)
            ELSE LET old == st.h[k]
                 IN MergeLoop([l |-> RemoveFirst(st.l, old),
                               h |-> Pop(st.h, k),
                               tl |-> Append(st.tl, old),
                               th |-> Put(st.th, k, old)], dfields, i + 1)

\* Form._merge(depends)
MergeForm(self, depends) ==
    LET st == MergeLoop([l |-> self.lFields, h |-> self.hFields, tl |-> <<>>, th |-> EmptyMap],
                        depends.lFields, 1)
    IN [self EXCEPT !.lFields = st.tl \o st.l,
                    !.hFields = Update(st.h, st.th)]

\* the early return of _process dropped: no Form counts as processed
is_processed_Never(form) == FALSE

\* Form.is_processed
is_processed(form) == form.processed

\* the recursive call into the parent dropped
NeedsParentFirst_Never(parent) == FALSE

\* Form._process, line 176: the parent is processed first when it is not yet
NeedsParentFirst(parent) == ~is_processed(parent)

\* the parent's field list read before the parent has been processed
ParentFields_BeforeParent(before, after, pname) == before[pname].lFields

\* Form._process, line 178: the parent's field list, read after the parent's
\* own _process has returned (before: the forms when this call began,
\* after: the forms when the recursive call has returned)
ParentFields(before, after, pname) == after[pname].lFields

\* the key test dropped: every parent field is taken
ShouldInherit_Always(h, f) == TRUE

\* Form._process, line 179: a parent field is taken when this Form's map
\* has no field of that key
ShouldInherit(h, f) == f.key \notin DOMAIN h

\* Form._process, line 180: the inherited field goes to the cursor n
InsertInherited(l, n, f) == InsertAt(l, n, f)

\* Form._process, the loop over parent.get_fields(): inserts at the cursor n
\* every parent field whose key this Form's map lacks
RECURSIVE InheritLoop(_, _, _)
InheritLoop(st, pfields, i) ==
    IF i > Len(pfields) THEN st
    ELSE LET f == pfields[i]
         IN IF ShouldInherit(st.h, f)
            THEN InheritLoop([l |-> InsertInherited(st.l, st.n, f),
                              h |-> Put(st.h, f.key, f),
                              n |-> st.n + 1], pfields, i + 1)
            ELSE InheritLoop(st, pfields, i + 1)

\* Field.process(a, b) on every field of the slice: the call is logged under
\* the Field object with the constants map it got as first argument
RECURSIVE LogProcess(_, _, _, _)
LogProcess(log, fields, i, first) ==
    IF i > Len(fields) THEN log
    ELSE LET f == fields[i]
             old == IF f \in DOMAIN log THEN log[f] ELSE <<>>
         IN LogProcess(Put(log, f, Append(old, first)), fields, i + 1, first)

\* Form._process(global_constants, constants, forms) on the Form called name.
\* g and c name the maps passed as first and second argument.  The result is
\* the forms and the log after the call and ok = FALSE when the recursion
\* never returns (the interpreter ends it at RecursionLimit, before any
\* frame has changed anything).
RECURSIVE ProcessForm(_, _, _, _, _, _)
ProcessForm(fs, log, name, g, c, depth) ==
    IF depth > RecursionLimit THEN [forms |-> fs, log |-> log, ok |-> FALSE]
    ELSE IF is_processed(fs[name]) THEN [forms |-> fs, log |-> log, ok |-> TRUE]
    ELSE
      LET self == fs[name]
          found == is_extending(self) /\ self.inherit \in DOMAIN fs
          r == IF found /\ NeedsParentFirst(fs[self.inherit])
               THEN ProcessForm(fs, log, self.inherit, c, g, depth + 1)
               ELSE [forms |-> fs, log |-> log, ok |-> TRUE]
      IN IF ~r.ok THEN [forms |-> fs, log |-> log, ok |-> FALSE]
         ELSE
           LET me == r.forms[name]
               st == IF found
                     THEN InheritLoop([l |-> me.lFields, h |-> me.hFields, n |-> 0],
                                      ParentFields(fs, r.forms, self.inherit), 1)
                     ELSE [l |-> me.lFields, h |-> me.hFields, n |-> 0]
               own == SubSeq(st.l, st.n + 1, Len(st.l))
           IN [forms |-> [r.forms EXCEPT ![name] =
                              [me EXCEPT !.lFields = st.l, !.hFields = st.h, !.processed = TRUE]],
               log |-> LogProcess(r.log, own, 1, g),
               ok |-> TRUE]

\* FormSet.process: every Form of the FormSet in the order the dict holds
\* them; an error raised by one Form ends the loop
RECURSIVE ProcessAll(_, _, _, _)
ProcessAll(fs, log, order, i) ==
    IF i > Len(order) THEN [forms |-> fs, log |-> log, ok |-> TRUE, at |-> NoneV]
    ELSE LET r == ProcessForm(fs, log, order[i], "global", "local", 1)
         IN IF ~r.ok THEN [forms |-> r.forms, log |-> r.log, ok |-> FALSE, at |-> order[i]]
            ELSE ProcessAll(r.forms, r.log, order, i + 1)

(* ---------------------------------------------------------------------- *)
(* Specification Spec: one FormSet, its Forms built by add_field and       *)
(* processed by Form._process and FormSet.process                          *)
(* ---------------------------------------------------------------------- *)
Returned == [error |-> NoneV, form |-> NoneV]
Raised(error, name) == [error |-> error, form |-> name]

Parents == FormNames \cup {NoneV, Ghost}

OwnCount(fs, name) == Cardinality({i \in 1..Len(fs[name].lFields) : fs[name].lFields[i].owner = name})

TotalOwn(fs) ==
    LET RECURSIVE Sum(_)
        Sum(S) == IF S = {} THEN 0 ELSE LET x == CHOOSE y \in S : TRUE IN OwnCount(fs, x) + Sum(S \ {x})
    IN Sum(FormNames)

Orders == {o \in [1..Cardinality(FormNames) -> FormNames] : \A i, j \in DOMAIN o : i # j => o[i] # o[j]}

\* the state of the parts a specification leaves alone
IdleForms ==
    /\ forms = [n \in FormNames |-> NewForm(NoneV)]
    /\ procLog = EmptyMap
    /\ fsProcessed = FALSE
    /\ last = Returned

IdleResources ==
    /\ hFormSets = EmptyMap
    /\ defaultFormSet = NoneObj
    /\ got = NoneObj

IdleResults ==
    /\ results = EmptyMap
    /\ rheap = EmptyMap
    /\ rcall = NoneObj

IdleRequests == reqs = EmptyMap

IdleRoutines == routine = NoneObj

IdleThreads == domainValidator = NoneObj /\ defaultValidator = NoneObj

IdleValidation ==
    /\ vform = NewForm(NoneV)
    /\ actions = EmptyMap
    /\ vout = NoneObj
    /\ IdleResults
    /\ IdleRequests

Init ==
    /\ \E inh \in [FormNames -> Parents] : forms = [n \in FormNames |-> NewForm(inh[n])]
    /\ procLog = EmptyMap
    /\ fsProcessed = FALSE
    /\ last = Returned
    /\ IdleResources
    /\ IdleValidation
    /\ IdleRoutines /\ IdleThreads

\* form.add_field(Field(key, page)) on the Form called name
AddField(name, key, page) ==
    /\ OwnCount(forms, name) < MaxOwn
    /\ TotalOwn(forms) < MaxTotal
    /\ forms' = [forms EXCEPT ![name] =
                    add_field(@, NewField(key, name, OwnCount(forms, name) + 1, page, <<>>))]
    /\ last' = Returned
    /\ UNCHANGED <<procLog, fsProcessed, resVars, valVars, routine, threadVars>>

\* form._process(global_constants, constants, forms) called on one Form
Process(name) ==
    LET r == ProcessForm(forms, procLog, name, "global", "local", 1)
    IN /\ forms' = r.forms
       /\ procLog' = r.log
       /\ last' = IF r.ok THEN Returned ELSE Raised("RecursionError", name)
       /\ UNCHANGED <<fsProcessed, resVars, valVars, routine, threadVars>>

\* form_set.process(global_constants), the dict holding the Forms in order
FormSetProcess(order) ==
    LET r == ProcessAll(forms, procLog, order, 1)
    IN /\ forms' = r.forms
       /\ procLog' = r.log
       /\ fsProcessed' = IF r.ok THEN TRUE ELSE fsProcessed
       /\ last' = IF r.ok THEN Returned ELSE Raised("RecursionError", r.at)
       /\ UNCHANGED <<resVars, valVars, routine, threadVars>>

Next ==
    \/ \E name \in FormNames, key \in Keys : AddField(name, key, 0)
    \/ \E name \in FormNames : Process(name)
    \/ \E order \in Orders : FormSetProcess(order)

Spec == Init /\ [][Next]_vars

(* ---------------------------------------------------------------------- *)
(* ValidatorResources: FormSets by locale and the fallback lookup          *)
(* ---------------------------------------------------------------------- *)
Languages == {NoneV, "en"}
Countries == {NoneV, "US"}
Variants == {NoneV, "var"}
FormKeys == {"userForm"}

\* ValidatorResources.build_locale: "_".join(filter(None, [lang, country,
\* variant])); the key is held as the sequence of the parts that are joined
build_locale(lang, country, variant) ==
    SelectSeq(<<lang, country, variant>>, LAMBDA x : x # NoneV)

\* a FormSet with its locale and the names of the Forms it holds
NewFormSet(lang, country, variant, names) ==
    [language |-> lang, country |-> country, variant |-> variant, forms |-> names]

\* ValidatorResources._build_key
build_key(form_set) == build_locale(form_set.language, form_set.country, form_set.variant)

\* FormSet.get_form: the Form object of that name held by this FormSet
FormSet_get_form(form_set, form_key) ==
    IF form_key \in form_set.forms
    THEN [language |-> form_set.language, country |-> form_set.country,
          variant |-> form_set.variant, name |-> form_key]
    ELSE NoneObj

\* _get_form_with_locale, lines 125-128 and 134-137: the FormSet under key
\* (build_locale never returns None, so "key is not None" always holds)
TryKey(h, key, form_key) ==
    IF key \in DOMAIN h
    THEN IF h[key] # NoneObj THEN FormSet_get_form(h[key], form_key) ELSE NoneObj
    ELSE NoneObj

\* _get_form_with_locale, lines 142-145: the FormSet under the language key
\* is asked only when it is None (and a call on None raises)
TryLanguage(h, key, form_key) ==
    IF key \in DOMAIN h
    THEN IF h[key] = NoneObj THEN [error |-> "AttributeError"] ELSE NoneObj
    ELSE NoneObj

\* _get_form_with_locale, lines 149-153: any error of the default lookup is swallowed
TryDefault(d, form_key) ==
    IF d = NoneObj THEN NoneObj ELSE FormSet_get_form(d, form_key)

\* ValidatorResources._get_form_with_locale
get_form(h, d, language, country, variant, form_key) ==
    LET f1 == TryKey(h, build_locale(language, country, variant), form_key)
        f2 == IF f1 = NoneObj THEN TryKey(h, build_locale(language, country, NoneV), form_key) ELSE f1
        f3 == IF f2 = NoneObj THEN TryLanguage(h, build_locale(language, NoneV, NoneV), form_key) ELSE f2
        f4 == IF f3 = NoneObj THEN TryDefault(d, form_key) ELSE f3
    IN f4

\* the mutant of add_form_set: a FormSet already held under the key stays
add_form_set_KeepFirst(h, d, form_set) ==
    LET key == build_key(form_set)
    IN IF key = <<>>
       THEN [h |-> h, d |-> IF d = NoneObj THEN form_set ELSE d]
       ELSE [h |-> IF key \in DOMAIN h THEN h ELSE Put(h, key, form_set), d |-> d]

\* ValidatorResources.add_form_set: the map and the default afterwards
add_form_set(h, d, form_set) ==
    LET key == build_key(form_set)
    IN IF key = <<>>
       THEN [h |-> h, d |-> form_set]
       ELSE [h |-> Put(h, key, form_set), d |-> d]

\* resources.add_form_set(form_set), the FormSet holding Forms of these names
AddFormSet(lang, country, variant, names) ==
    LET r == add_form_set(hFormSets, defaultFormSet, NewFormSet(lang, country, variant, names))
    IN /\ hFormSets' = r.h
       /\ defaultFormSet' = r.d
       /\ UNCHANGED <<got, formVars, valVars, routine, threadVars>>

\* resources.get_form(language, country, variant, form_key)
GetForm(lang, country, variant, form_key) ==
    /\ got' = [language |-> lang, country |-> country, variant |-> variant, form_key |-> form_key,
               form |-> get_form(hFormSets, defaultFormSet, lang, country, variant, form_key)]
    /\ UNCHANGED <<hFormSets, defaultFormSet, formVars, valVars, routine, threadVars>>

InitRes == IdleForms /\ IdleResources /\ IdleValidation /\ IdleRoutines /\ IdleThreads

NextRes ==
    \/ \E l \in Languages, c \in Countries, v \in Variants, names \in SUBSET FormKeys :
          AddFormSet(l, c, v, names)
    \/ \E l \in Languages, c \in Countries, v \in Variants, k \in FormKeys :
          GetForm(l, c, v, k)

SpecRes == InitRes /\ [][NextRes]_vars

\* the FormSet registered for a locale, NoneObj when there is none
RegisteredFor(h, d, lang, country, variant) ==
    LET key == build_locale(lang, country, variant)
    IN IF key = <<>> THEN d
       ELSE IF key \in DOMAIN h THEN h[key] ELSE NoneObj

\* the Form of the first level of the chain that holds one of that name
FirstHit(h, d, lang, country, variant, form_key) ==
    LET chain == <<RegisteredFor(h, d, lang, country, variant),
                   RegisteredFor(h, d, lang, country, NoneV),
                   RegisteredFor(h, d, lang, NoneV, NoneV),
                   d>>
        hits == {i \in 1..4 : chain[i] # NoneObj /\ form_key \in chain[i].forms}
    IN IF hits = {} THEN NoneObj
       ELSE LET i == CHOOSE x \in hits : \A y \in hits : x <= y
            IN [language |-> chain[i].language, country |-> chain[i].country,
                variant |-> chain[i].variant, name |-> form_key]

MaxProcessCalls == 2

\* names of the Forms the FormSets of this part hold
SetFormNames == {"userForm", "baseForm"}
\* the locales FormSets are registered for: default, language, language and country
SetLocales == {<<NoneV, NoneV, NoneV>>, <<"en", NoneV, NoneV>>, <<"en", "US", NoneV>>}

\* a loaded Form: one field of its own and its extends attribute
LoadedForm(name, inherit) ==
    add_field(NewForm(inherit), NewField(IF name = "baseForm" THEN "B" ELSE "A", name, 1, 0, <<>>))

\* the dicts of Forms a loaded FormSet may hold: the names in insertion
\* order, each Form extending nothing or the other name
LoadedForms ==
    {[order |-> o, forms |-> [n \in Range(o) |-> LoadedForm(n, inh[n])]] :
        o \in {<<>>, <<"userForm">>, <<"userForm", "baseForm">>, <<"baseForm", "userForm">>},
        inh \in {f \in [SetFormNames -> SetFormNames \cup {NoneV}] : \A n \in SetFormNames : f[n] # n}}

\* a FormSet as ValidatorResources.process sees it: locale, the dict of
\* Forms with its insertion order, the processed flag, and the number of
\* process calls it has received
LoadedFormSet(lang, country, variant, loaded) ==
    [language |-> lang, country |-> country, variant |-> variant,
     forms |-> loaded.forms, order |-> loaded.order, processed |-> FALSE, calls |-> 0]

\* FormSet.process once its loop over the Forms has ended as r: the
\* processed flag is set when the loop returned
Processed(form_set, r) ==
    [form_set |-> [form_set EXCEPT !.forms = r.forms,
                                   !.processed = IF r.ok THEN TRUE ELSE @,
                                   !.calls = @ + 1],
     ok |-> r.ok]

\* FormSet.process on one FormSet: the FormSet afterwards and whether the call returned
FormSet_process(form_set) ==
    Processed(form_set, ProcessAll(form_set.forms, EmptyMap, form_set.order, 1))

\* the mutant of DefaultHeld: the default FormSet is passed over
DefaultHeld_Never(d) == FALSE

\* ValidatorResources.process, the test `if self._default_form_set:`
DefaultHeld(d) == d # NoneObj

\* ValidatorResources.process, the loop over self._h_form_sets.values():
\* keys is the order the dict holds them in; an error ends the loop
RECURSIVE ProcessSets(_, _, _)
RECURSIVE ProcessSetsFrom(_, _, _, _)
ProcessSets(h, keys, i) ==
    IF i > Len(keys) THEN [h |-> h, ok |-> TRUE]
    ELSE ProcessSetsFrom(h, keys, i, FormSet_process(h[keys[i]]))

\* the loop once form_set.process of the FormSet at i has ended as r
ProcessSetsFrom(h, keys, i, r) ==
    IF ~r.ok THEN [h |-> Put(h, keys[i], r.form_set), ok |-> FALSE]
    ELSE ProcessSets(Put(h, keys[i], r.form_set), keys, i + 1)

\* ValidatorResources.process once the default FormSet's turn has ended as r0
ProcessRegistered(h, keys, r0) ==
    IF ~r0.ok THEN [h |-> h, d |-> r0.form_set, ok |-> FALSE]
    ELSE [h |-> ProcessSets(h, keys, 1).h, d |-> r0.form_set, ok |-> ProcessSets(h, keys, 1).ok]

\* ValidatorResources.process
process(h, d, keys) ==
    ProcessRegistered(h, keys,
        IF DefaultHeld(d) THEN FormSet_process(d) ELSE [form_set |-> d, ok |-> TRUE])

\* the orders a dict may hold these keys in
KeyOrders(S) == {o \in [1..Cardinality(S) -> S] : \A i, j \in DOMAIN o : i # j => o[i] # o[j]}

\* the number of resources.process() calls made so far
ProcessCalls == IF got = NoneObj THEN 0 ELSE got.n

\* resources.add_form_set(form_set) with a loaded FormSet
RegisterFormSet(locale, loaded) ==
    LET r == add_form_set(hFormSets, defaultFormSet,
                          LoadedFormSet(locale[1], locale[2], locale[3], loaded))
    IN /\ hFormSets' = r.h
       /\ defaultFormSet' = r.d
       /\ UNCHANGED <<got, formVars, valVars, routine, threadVars>>

\* resources.process()
ResourcesProcess(keys) ==
    LET r == process(hFormSets, defaultFormSet, keys)
    IN /\ ProcessCalls < MaxProcessCalls
       /\ hFormSets' = r.h
       /\ defaultFormSet' = r.d
       /\ got' = [n |-> ProcessCalls + 1, error |-> IF r.ok THEN NoneV ELSE "RecursionError"]
       /\ UNCHANGED <<formVars, valVars, routine, threadVars>>

InitSets == IdleForms /\ IdleResources /\ IdleValidation /\ IdleRoutines /\ IdleThreads

NextSets ==
    \/ \E locale \in SetLocales, loaded \in LoadedForms : RegisterFormSet(locale, loaded)
    \/ \E keys \in KeyOrders(DOMAIN hFormSets) : ResourcesProcess(keys)

SpecSets == InitSets /\ [][NextSets]_vars

\* the FormSets the resources hold: the default, if any, and every registered one
HeldFormSets(h, d) == {h[k] : k \in DOMAIN h} \cup (IF d = NoneObj THEN {} ELSE {d})

\* the FormSet held under a locale key (<<>> for the default)
HeldUnder(h, d, key) == IF key = <<>> THEN d ELSE h[key]

HeldKeys(h, d) == (DOMAIN h) \cup (IF d = NoneObj THEN {} ELSE {<<>>})

MaxMerges == 2

\* the field keys, in list order, of the userForm a FormSet may be loaded with
MergeFieldLists == {<<"A">>, <<"B">>, <<"A", "B">>, <<"A", "A">>}

\* a Form object loaded with fields of these keys; id tells the objects apart
RECURSIVE FormOf(_, _, _)
FormOf(id, keys, i) ==
    IF i = 0 THEN NewForm(NoneV)
    ELSE add_field(FormOf(id, keys, i - 1), NewField(keys[i], id, i, 0, <<>>))

\* the locale key of a locale triple
KeyOf(locale) == build_locale(locale[1], locale[2], locale[3])

\* a FormSet holding Form objects by id
HeapFormSet(locale, ids) ==
    [language |-> locale[1], country |-> locale[2], variant |-> locale[3],
     forms |-> ids, merged |-> FALSE]

\* Form._merge when depends is this very Form: the loop walks the list that
\* list.remove shortens under it (i is the 0-based position of the iterator)
RECURSIVE MergeLoopSelf(_, _)
MergeLoopSelf(st, i) ==
    IF i >= Len(st.l) THEN st
    ELSE LET df == st.l[i + 1]
             k == df.key
         IN IF k \notin DOMAIN st.h
            THEN MergeLoopSelf([st EXCEPT !.tl = Append(@, df), !.th = Put(@, k, df)], i + 1)
            ELSE LET old == st.h[k]
                 IN MergeLoopSelf([l |-> RemoveFirst(st.l, old),
                                   h |-> Pop(st.h, k),
                                   tl |-> Append(st.tl, old),
                                   th |-> Put(st.th, k, old)], i + 1)

\* p_form.merge(form) on two objects of the heap
MergeInHeap(heap, pid, did) ==
    IF pid # did THEN MergeForm(heap[pid], heap[did])
    ELSE LET self == heap[pid]
             st == MergeLoopSelf([l |-> self.lFields, h |-> self.hFields, tl |-> <<>>, th |-> EmptyMap], 0)
         IN [self EXCEPT !.lFields = st.tl \o st.l, !.hFields = Update(st.h, st.th)]

\* FormSet._merge(depends): the heap and this FormSet afterwards.  Forms of
\* different names are different objects, so the order of the loop over
\* d_forms does not matter.
FormSet_merge(heap, self, depends) ==
    IF depends = NoneObj THEN [heap |-> heap, self |-> [self EXCEPT !.merged = TRUE]]
    ELSE LET p_forms == self.forms
             d_forms == depends.forms
             both == (DOMAIN p_forms) \cap (DOMAIN d_forms)
         IN [heap |-> [id \in DOMAIN heap |->
                          IF \E key \in both : p_forms[key] = id
                          THEN LET key == CHOOSE x \in both : p_forms[x] = id
                               IN MergeInHeap(heap, id, d_forms[key])
                          ELSE heap[id]],
             self |-> [self EXCEPT !.forms = [key \in (DOMAIN p_forms) \cup (DOMAIN d_forms) |->
                                                IF key \in DOMAIN p_forms THEN p_forms[key] ELSE d_forms[key]],
                                   !.merged = TRUE]]

\* the number of _merge calls made so far
MergeCalls == IF got = NoneObj THEN 0 ELSE got.n

\* self._merge(depends), both FormSets named by their locale key; depends may be None
Merge(skey, dkey) ==
    LET self == HeldUnder(hFormSets, defaultFormSet, skey)
        depends == IF dkey = <<"None">> THEN NoneObj ELSE HeldUnder(hFormSets, defaultFormSet, dkey)
        r == FormSet_merge(forms, self, depends)
    IN /\ MergeCalls < MaxMerges
       /\ forms' = r.heap
       /\ IF skey = <<>>
          THEN defaultFormSet' = r.self /\ UNCHANGED hFormSets
          ELSE hFormSets' = Put(hFormSets, skey, r.self) /\ UNCHANGED defaultFormSet
       /\ got' = [n |-> MergeCalls + 1, self |-> skey, depends |-> dkey]
       /\ UNCHANGED <<procLog, fsProcessed, last, valVars, routine, threadVars>>

\* three loaded FormSets (default, language, language and country), each
\* with or without a userForm and a baseForm
InitMerge ==
    /\ \E u \in [SetLocales -> MergeFieldLists \cup {<<>>}], b \in [SetLocales -> BOOLEAN] :
          LET names(loc) == (IF u[loc] # <<>> THEN {"userForm"} ELSE {}) \cup (IF b[loc] THEN {"baseForm"} ELSE {})
              ids(loc) == [name \in names(loc) |-> <<KeyOf(loc), name>>]
              held == {loc \in SetLocales : KeyOf(loc) # <<>>}
              locOf(key) == CHOOSE loc \in SetLocales : KeyOf(loc) = key
          IN /\ forms = [id \in UNION {{<<KeyOf(loc), name>> : name \in names(loc)} : loc \in SetLocales} |->
                            IF id[2] = "userForm"
                            THEN FormOf(id, u[locOf(id[1])], Len(u[locOf(id[1])]))
                            ELSE FormOf(id, <<"B">>, 1)]
             /\ hFormSets = [key \in {KeyOf(loc) : loc \in held} |-> HeapFormSet(locOf(key), ids(locOf(key)))]
             /\ defaultFormSet = HeapFormSet(locOf(<<>>), ids(locOf(<<>>)))
    /\ procLog = EmptyMap
    /\ fsProcessed = FALSE
    /\ last = Returned
    /\ got = NoneObj
    /\ IdleValidation
    /\ IdleRoutines /\ IdleThreads

NextMerge ==
    \E skey \in {KeyOf(loc) : loc \in SetLocales},
       dkey \in {KeyOf(loc) : loc \in SetLocales} \cup {<<"None">>} : Merge(skey, dkey)

SpecMerge == InitMerge /\ [][NextMerge]_vars

(* ---------------------------------------------------------------------- *)
(* ValidatorResources.add_form_set: one FormSet per locale key             *)
(* ---------------------------------------------------------------------- *)
\* locale components of the FormSets registered here; a code may stand as
\* country or as variant
KeyLanguages == {NoneV, "en"}
KeyCountries == {NoneV, "US"}
KeyVariants == {NoneV, "US"}

\* resources.add_form_set(form_set): the FormSet given and the one the call
\* found under its key ("Overriding FormSet definition")
Register(lang, country, variant, names) ==
    LET form_set == NewFormSet(lang, country, variant, names)
        r == add_form_set(hFormSets, defaultFormSet, form_set)
    IN /\ hFormSets' = r.h
       /\ defaultFormSet' = r.d
       /\ got' = [form_set |-> form_set,
                  overridden |-> IF build_key(form_set) = <<>> THEN defaultFormSet
                                 ELSE IF build_key(form_set) \in DOMAIN hFormSets
                                 THEN hFormSets[build_key(form_set)] ELSE NoneObj]
       /\ UNCHANGED <<formVars, valVars, routine, threadVars>>

NextKeys ==
    \E l \in KeyLanguages, c \in KeyCountries, v \in KeyVariants, names \in SUBSET FormKeys :
       Register(l, c, v, names)

SpecKeys == InitRes /\ [][NextKeys]_vars

\* the locale of a FormSet
LocaleOf(form_set) == <<form_set.language, form_set.country, form_set.variant>>

\* the FormSets held for the locale of form_set
SameLocale(held, form_set) == {g \in held : LocaleOf(g) = LocaleOf(form_set)}

\* C15: ValidatorResources holds at most one FormSet for each distinct
\* (language, country, variant) locale and at most one default FormSet;
\* registering a FormSet for an already registered locale replaces the
\* earlier one and changes no other locale's FormSet.
C15_OneFormSetPerLocale ==
    [][got' # got =>
          LET before == HeldFormSets(hFormSets, defaultFormSet)
              after == HeldFormSets(hFormSets', defaultFormSet')
              form_set == got'.form_set
          IN /\ \A f \in after, g \in after : LocaleOf(f) = LocaleOf(g) => f = g
             /\ Cardinality({f \in after : LocaleOf(f) = <<NoneV, NoneV, NoneV>>}) <= 1
             /\ SameLocale(before, form_set) # {} =>
                   after = (before \ SameLocale(before, form_set)) \cup {form_set}]_vars

\* a FormSet has just replaced a different FormSet of its own locale while
\* the default and another locale's FormSet are held
C15_Witness ==
    /\ got # NoneObj
    /\ got.overridden # NoneObj
    /\ got.overridden # got.form_set
    /\ LocaleOf(got.overridden) = LocaleOf(got.form_set)
    /\ LocaleOf(got.form_set) = <<"en", "US", NoneV>>
    /\ hFormSets[<<"en", "US">>] = got.form_set
    /\ Cardinality(DOMAIN hFormSets) >= 2
    /\ defaultFormSet # NoneObj

(* ---------------------------------------------------------------------- *)
(* FormSet._get_type: the type of a FormSet from its locale components     *)
(* ---------------------------------------------------------------------- *)
GLOBAL_FORMSET == 1
LANGUAGE_FORMSET == 2
COUNTRY_FORMSET == 3
VARIANT_FORMSET == 4

\* values the locale setters are given: None, the empty string, codes
LanguageValues == {NoneV, "", "en", "fr"}
CountryValues == {NoneV, "", "US", "CA"}
VariantValues == {NoneV, "", "var", "POSIX"}

\* truth value of an optional string
Truthy(x) == x # NoneV /\ x # ""

\* the mutant of _get_type: a country without a language is let through
FormSet_get_type_Lenient(form_set) ==
    IF Truthy(form_set.variant)
    THEN IF ~Truthy(form_set.language) \/ ~Truthy(form_set.country)
         THEN [error |-> "ValueError"]
         ELSE [error |-> NoneV, type |-> VARIANT_FORMSET]
    ELSE IF Truthy(form_set.country) THEN [error |-> NoneV, type |-> COUNTRY_FORMSET]
    ELSE IF Truthy(form_set.language) THEN [error |-> NoneV, type |-> LANGUAGE_FORMSET]
    ELSE [error |-> NoneV, type |-> GLOBAL_FORMSET]

\* FormSet._get_type
FormSet_get_type(form_set) ==
    IF Truthy(form_set.variant)
    THEN IF ~Truthy(form_set.language) \/ ~Truthy(form_set.country)
         THEN [error |-> "ValueError"]
         ELSE [error |-> NoneV, type |-> VARIANT_FORMSET]
    ELSE IF Truthy(form_set.country)
    THEN IF ~Truthy(form_set.language)
         THEN [error |-> "ValueError"]
         ELSE [error |-> NoneV, type |-> COUNTRY_FORMSET]
    ELSE IF Truthy(form_set.language) THEN [error |-> NoneV, type |-> LANGUAGE_FORMSET]
    ELSE [error |-> NoneV, type |-> GLOBAL_FORMSET]

\* form_set.language = value
SetLanguage(value) ==
    /\ defaultFormSet' = [defaultFormSet EXCEPT !.language = value]
    /\ UNCHANGED <<hFormSets, got, formVars, valVars, routine, threadVars>>

\* form_set.country = value
SetCountry(value) ==
    /\ defaultFormSet' = [defaultFormSet EXCEPT !.country = value]
    /\ UNCHANGED <<hFormSets, got, formVars, valVars, routine, threadVars>>

\* form_set.variant = value
SetVariant(value) ==
    /\ defaultFormSet' = [defaultFormSet EXCEPT !.variant = value]
    /\ UNCHANGED <<hFormSets, got, formVars, valVars, routine, threadVars>>

\* form_set._get_type(): the locale it was called with and how it ended
GetType ==
    /\ got' = [language |-> defaultFormSet.language, country |-> defaultFormSet.country,
               variant |-> defaultFormSet.variant, result |-> FormSet_get_type(defaultFormSet)]
    /\ UNCHANGED <<hFormSets, defaultFormSet, formVars, valVars, routine, threadVars>>

\* one FormSet, fresh from FormSet.__init__
InitType ==
    /\ IdleForms /\ IdleValidation /\ IdleRoutines /\ IdleThreads
    /\ hFormSets = EmptyMap
    /\ defaultFormSet = NewFormSet(NoneV, NoneV, NoneV, {})
    /\ got = NoneObj

NextType ==
    \/ \E value \in LanguageValues : SetLanguage(value)
    \/ \E value \in CountryValues : SetCountry(value)
    \/ \E value \in VariantValues : SetVariant(value)
    \/ GetType

SpecType == InitType /\ [][NextType]_vars

\* C14: _get_type returns VARIANT when variant, country and language are
\* all set, COUNTRY when country and language are set without a variant,
\* LANGUAGE when only language is set and GLOBAL when none is set, and
\* raises an error whenever country is set without language or variant is
\* set without both language and country.
C14_TypeByLocale ==
    got # NoneObj =>
       LET l == got.language \notin {NoneV, ""}
           c == got.country \notin {NoneV, ""}
           v == got.variant \notin {NoneV, ""}
           returns(t) == got.result.error = NoneV /\ got.result.type = t
       IN /\ (l /\ c /\ v) => returns(VARIANT_FORMSET)
          /\ (l /\ c /\ ~v) => returns(COUNTRY_FORMSET)
          /\ (l /\ ~c /\ ~v) => returns(LANGUAGE_FORMSET)
          /\ (~l /\ ~c /\ ~v) => returns(GLOBAL_FORMSET)
          /\ ((c /\ ~l) \/ (v /\ ~(l /\ c))) => got.result.error = "ValueError"

\* _get_type has raised for a country without a language
C14_Witness ==
    /\ got # NoneObj
    /\ got.country = "US" /\ got.language = NoneV /\ got.variant = NoneV
    /\ got.result.error = "ValueError"

(* ---------------------------------------------------------------------- *)
(* Validation: ValidatorAction, ValidatorResult(s), Form.validate          *)
(* ---------------------------------------------------------------------- *)
\* most fields of the Form that is validated
MaxVFields == 2

\* A depends string is the sequence of its characters; an action name is a
\* string too.  required and email are written r and e.
Required == <<"r">>
Email == <<"e">>
ActionNames == {Required, Email}
\* depends attributes of a ValidatorAction: "", "r", "m, r", "e"
ActionDepends == {<<>>, <<"r">>, <<"m", ",", " ", "r">>, <<"e">>}
\* depends attributes of a Field (each action named once): "", "r", "r,e", "e, r"
FieldDepends == {<<>>, <<"r">>, <<"r", ",", "e">>, <<"e", ",", " ", "r">>}
\* field_name arguments of Form.validate: None, "", the keys, a key no field has
FieldNames == {NoneV, ""} \cup Keys \cup {"Z"}

\* str.split(sep)
RECURSIVE Split(_, _)
Split(s, sep) ==
    IF \A i \in 1..Len(s) : s[i] # sep THEN <<s>>
    ELSE LET i == CHOOSE x \in 1..Len(s) : s[x] = sep /\ \A j \in 1..(x - 1) : s[j] # sep
         IN <<SubSeq(s, 1, i - 1)>> \o Split(SubSeq(s, i + 1, Len(s)), sep)

\* str.strip()
RECURSIVE Strip(_)
Strip(s) ==
    IF s = <<>> THEN s
    ELSE IF Head(s) = " " THEN Strip(Tail(s))
    ELSE IF s[Len(s)] = " " THEN Strip(SubSeq(s, 1, Len(s) - 1))
    ELSE s

\* the mutant of get_dependencies: the parts are not stripped
get_dependencies_NoStrip(depends) ==
    IF depends # <<>> THEN Split(depends, ",") ELSE <<>>

\* ValidatorAction.get_dependencies
get_dependencies(depends) ==
    IF depends # <<>>
    THEN LET parts == Split(depends, ",") IN [i \in 1..Len(parts) |-> Strip(parts[i])]
    ELSE <<>>

\* Field.get_dependencies: the same parse of the field's depends attribute
Field_get_dependencies(field) ==
    IF field.depends # <<>>
    THEN LET parts == Split(field.depends, ",") IN [i \in 1..Len(parts) |-> Strip(parts[i])]
    ELSE <<>>

\* ValidatorAction with its depends attribute
NewAction(depends) == [depends |-> depends]

\* ValidatorResult.add: _h_action[validator_name] = ResultStatus(result, value)
ResultAdd(h_action, validator_name, result, value) ==
    Put(h_action, validator_name, [valid |-> result, result |-> value])

\* ValidatorResult.contains_action
contains_action(h_action, validator_name) == validator_name \in DOMAIN h_action

\* ValidatorResult.is_valid
is_valid(h_action, validator_name) ==
    validator_name \in DOMAIN h_action /\ h_action[validator_name].valid

\* a merge that keeps the receiver's own entry for a key both hold
ResultsMerge_KeepOwn(h_results, other) ==
    [k \in (DOMAIN h_results) \cup (DOMAIN other) |->
        IF k \in DOMAIN h_results THEN h_results[k] ELSE other[k]]

\* ValidatorResults.merge: dict.update
ResultsMerge(h_results, other) ==
    [k \in (DOMAIN h_results) \cup (DOMAIN other) |->
        IF k \in DOMAIN other THEN other[k] ELSE h_results[k]]

\* an action is skipped when an action its own depends names has run for
\* this field in this pass and failed
Blocked(action, h_action) ==
    LET deps == get_dependencies(action.depends)
    IN \E k \in 1..Len(deps) : contains_action(h_action, deps[k]) /\ ~is_valid(h_action, deps[k])

\* Field.validate, the loop over the field's action names: o[name] is what
\* the action's method returns for this bean; st carries the steps taken
\* and the field's ValidatorResult
RECURSIVE RunActions(_, _, _, _, _)
RunActions(names, i, acts, o, st) ==
    IF i > Len(names) THEN st
    ELSE LET name == names[i]
         IN IF Blocked(acts[name], st.result)
            THEN RunActions(names, i + 1, acts, o,
                     [st EXCEPT !.steps = Append(@, [action |-> name, ran |-> FALSE, valid |-> FALSE])])
            ELSE RunActions(names, i + 1, acts, o,
                     [steps |-> Append(st.steps, [action |-> name, ran |-> TRUE, valid |-> o[name]]),
                      result |-> ResultAdd(st.result, name, o[name], NoneV)])

\* Field.validate: the pass over one field and the ValidatorResults it returns
Field_validate(field, acts, o) ==
    LET st == RunActions(Field_get_dependencies(field), 1, acts, o, [steps |-> <<>>, result |-> EmptyMap])
    IN [field |-> field, steps |-> st.steps, result |-> st.result,
        results |-> IF st.result = EmptyMap THEN EmptyMap ELSE Put(EmptyMap, field.key, st.result)]

\* the mutant of PageAllows: a field of the page itself is left out
PageAllows_Strict(field, page) == field.page < page

\* Form.validate, the test field.get_page() <= page
PageAllows(field, page) == field.page <= page

\* Form.validate, the loop over self._lFields
RECURSIVE ValidateLoop(_, _, _, _, _, _)
ValidateLoop(lFields, i, acts, page, o, st) ==
    IF i > Len(lFields) THEN st
    ELSE IF PageAllows(lFields[i], page)
    THEN LET pass == Field_validate(lFields[i], acts, o)
         IN ValidateLoop(lFields, i + 1, acts, page, o,
                [passes |-> Append(st.passes, [field |-> pass.field, steps |-> pass.steps, result |-> pass.result]),
                 results |-> ResultsMerge(st.results, pass.results)])
    ELSE ValidateLoop(lFields, i + 1, acts, page, o, st)

\* Form.validate
validate(form, acts, page, field_name, o) ==
    LET none == [passes |-> <<>>, results |-> EmptyMap]
        call == [page |-> page, field_name |-> field_name]
    IN IF field_name # NoneV /\ field_name # ""
       THEN IF field_name \notin DOMAIN form.hFields
            THEN [call |-> call, error |-> "ValidatorException", passes |-> <<>>, results |-> EmptyMap]
            ELSE LET st == ValidateLoop(<<form.hFields[field_name]>>, 1, acts, page, o, none)
                 IN [call |-> call, error |-> NoneV, passes |-> st.passes, results |-> st.results]
       ELSE LET st == ValidateLoop(form.lFields, 1, acts, page, o, none)
            IN [call |-> call, error |-> NoneV, passes |-> st.passes, results |-> st.results]

\* form.add_field(field) while the Form is configured
VAddField(key, page, depends) ==
    /\ Len(vform.lFields) < MaxVFields
    /\ vform' = add_field(vform, NewField(key, "form", Len(vform.lFields) + 1, page, depends))
    /\ UNCHANGED <<actions, vout, resultVars, reqs, formVars, resVars, routine, threadVars>>

\* form.validate(params, actions, page, field_name)
Validate(page, field_name, o) ==
    /\ vout' = validate(vform, actions, page, field_name, o)
    /\ UNCHANGED <<vform, actions, resultVars, reqs, formVars, resVars, routine, threadVars>>

InitValidate ==
    /\ IdleForms /\ IdleResources /\ IdleRoutines /\ IdleThreads
    /\ vform = NewForm(NoneV)
    /\ actions \in [ActionNames -> {NewAction(d) : d \in ActionDepends}]
    /\ vout = NoneObj
    /\ IdleResults
    /\ IdleRequests

NextValidate ==
    \/ \E key \in Keys, page \in Pages, depends \in FieldDepends : VAddField(key, page, depends)
    \/ \E page \in Pages, field_name \in FieldNames, o \in [ActionNames -> BOOLEAN] :
          Validate(page, field_name, o)

SpecValidate == InitValidate /\ [][NextValidate]_vars

(* ---------------------------------------------------------------------- *)
(* ValidatorResults: add, merge, get_result_value_map.  The ValidatorResult *)
(* objects live in a heap (rheap) because merge makes two ValidatorResults  *)
(* hold the same object.                                                    *)
(* ---------------------------------------------------------------------- *)
\* most calls on ValidatorResults objects in one run
MaxResultCalls == 3

ResultObjects == {"a", "b"}

\* values an action may return, with their type
NoneValue == [type |-> "NoneType", repr |-> "None"]
TrueValue == [type |-> "bool", repr |-> "True"]
ReturnedValues == {NoneValue, TrueValue, [type |-> "str", repr |-> "x"], [type |-> "str", repr |-> "y"]}

\* what one add call records: (result, value)
Recorded == {<<FALSE, NoneValue>>, <<TRUE, TrueValue>>,
             <<TRUE, [type |-> "str", repr |-> "x"]>>, <<TRUE, [type |-> "str", repr |-> "y"]>>}

\* ValidatorResult.__init__
NewResult == [h_action |-> EmptyMap, keys |-> <<>>]

\* ValidatorResult.add on an object of the heap: a new name goes to the end
\* of the dict, a known name keeps its place
Result_add(vr, validator_name, result, value) ==
    [h_action |-> ResultAdd(vr.h_action, validator_name, result, value),
     keys |-> IF validator_name \in DOMAIN vr.h_action THEN vr.keys ELSE Append(vr.keys, validator_name)]

\* the methods class ValidatorResult defines; get_actions is commented out
ValidatorResultMethods == {"add", "contains_action", "action_map", "get_result", "is_valid"}

\* the commented-out get_actions: the names in the dict's order
get_actions(vr) == vr.keys

\* ValidatorResult.get_result
get_result(vr, validator_name) ==
    IF validator_name \in DOMAIN vr.h_action THEN vr.h_action[validator_name].result ELSE NoneValue

\* get_result_value_map, the test `res is not None and not isinstance(res, bool)`
IsValueResult(res) == res # NoneValue /\ res.type # "bool"

\* get_result_value_map, the inner loop over one ValidatorResult: entry is
\* <<value>> once a value was stored for the property key, <<>> before
RECURSIVE ValueLoop(_, _, _)
ValueLoop(vr, i, entry) ==
    IF i > Len(get_actions(vr)) THEN entry
    ELSE LET res == get_result(vr, get_actions(vr)[i])
         IN ValueLoop(vr, i + 1, IF IsValueResult(res) THEN <<res>> ELSE entry)

\* ValidatorResults.get_result_value_map: the first ValidatorResult the
\* outer loop meets is asked for get_actions(), which it does not have
get_result_value_map(h_results, heap) ==
    LET entry(k) == ValueLoop(heap[h_results[k]], 1, <<>>)
    IN IF DOMAIN h_results # {} /\ "get_actions" \notin ValidatorResultMethods
       THEN [error |-> "AttributeError", map |-> NoneObj]
       ELSE [error |-> NoneV,
             map |-> [k \in {x \in DOMAIN h_results : entry(x) # <<>>} |-> entry(k)[1]]]

\* the objects of the heap some ValidatorResults still holds
Referenced(rs, heap) ==
    [id \in UNION {{rs[o][k] : k \in DOMAIN rs[o]} : o \in DOMAIN rs} |-> heap[id]]

\* the number of calls made so far
ResultCalls == IF rcall = NoneObj THEN 0 ELSE rcall.n

\* o.add(field, validator_name, result, value), field.key being key
ResultsAdd(o, key, validator_name, rec) ==
    LET fresh == key \notin DOMAIN results[o]
        id == IF fresh THEN <<o, key>> ELSE results[o][key]
        vr == IF fresh THEN NewResult ELSE rheap[id]
    IN /\ ResultCalls < MaxResultCalls
       /\ results' = [results EXCEPT ![o] = Put(@, key, id)]
       /\ rheap' = Put(rheap, id, Result_add(vr, validator_name, rec[1], rec[2]))
       /\ rcall' = [n |-> ResultCalls + 1, op |-> "add", self |-> o]
       /\ UNCHANGED <<vform, actions, vout, reqs, formVars, resVars, routine, threadVars>>

\* self.merge(other); ValidatorResult objects no ValidatorResults holds
\* any more are dropped from the heap
ResultsMergeCall(self, other) ==
    LET rs == [results EXCEPT ![self] = ResultsMerge(@, results[other])]
    IN /\ ResultCalls < MaxResultCalls
       /\ results' = rs
       /\ rheap' = Referenced(rs, rheap)
       /\ rcall' = [n |-> ResultCalls + 1, op |-> "merge", self |-> self, other |-> other]
       /\ UNCHANGED <<vform, actions, vout, reqs, formVars, resVars, routine, threadVars>>

\* o.get_result_value_map()
ResultsValueMap(o) ==
    /\ ResultCalls < MaxResultCalls
    /\ rcall' = [n |-> ResultCalls + 1, op |-> "get_result_value_map", self |-> o,
                 out |-> get_result_value_map(results[o], rheap)]
    /\ UNCHANGED <<results, rheap, vform, actions, vout, reqs, formVars, resVars, routine, threadVars>>

\* two fresh ValidatorResults objects
InitResults ==
    /\ IdleForms /\ IdleResources /\ IdleRoutines /\ IdleThreads
    /\ vform = NewForm(NoneV) /\ actions = EmptyMap /\ vout = NoneObj /\ IdleRequests
    /\ results = [o \in ResultObjects |-> EmptyMap]
    /\ rheap = EmptyMap
    /\ rcall = NoneObj

NextResults ==
    \/ \E o \in ResultObjects, key \in Keys, validator_name \in ActionNames, rec \in Recorded :
          ResultsAdd(o, key, validator_name, rec)
    \/ \E self \in ResultObjects, other \in ResultObjects : ResultsMergeCall(self, other)
    \/ \E o \in ResultObjects : ResultsValueMap(o)

SpecResults == InitResults /\ [][NextResults]_vars

\* the ValidatorResult a ValidatorResults holds for a field key, by content
Held(rs, heap, o, key) == heap[rs[o][key]]

\* C16: after a.merge(b), a's field keys are the union of both operands'
\* field keys, every field key present in b maps to b's ValidatorResult,
\* every field key present only in a keeps a's ValidatorResult, and b is
\* unchanged.
C16_MergeIsUnion ==
    [][(rcall' # rcall /\ rcall'.op = "merge") =>
          LET a == rcall'.self
              b == rcall'.other
          IN /\ DOMAIN results'[a] = (DOMAIN results[a]) \cup (DOMAIN results[b])
             /\ \A key \in DOMAIN results[b] :
                   /\ results'[a][key] = results[b][key]
                   /\ Held(results', rheap', a, key) = Held(results, rheap, b, key)
             /\ \A key \in (DOMAIN results[a]) \ (DOMAIN results[b]) :
                   /\ results'[a][key] = results[a][key]
                   /\ Held(results', rheap', a, key) = Held(results, rheap, a, key)
             /\ DOMAIN results'[b] = DOMAIN results[b]
             /\ \A key \in DOMAIN results[b] :
                   /\ results'[b][key] = results[b][key]
                   /\ Held(results', rheap', b, key) = Held(results, rheap, b, key)]_vars

\* a.merge(b) has replaced a's ValidatorResult for a key by b's and kept
\* a's for another key
C16_Witness ==
    /\ rcall # NoneObj /\ rcall.op = "merge" /\ rcall.self = "a" /\ rcall.other = "b"
    /\ DOMAIN results["a"] = {"A", "B"}
    /\ DOMAIN results["b"] = {"B"}
    /\ results["a"]["B"] = <<"b", "B">>
    /\ results["a"]["A"] = <<"a", "A">>

\* the values recorded for a field that are neither None nor a boolean
ValuesOf(vr) ==
    {vr.h_action[name].result : name \in {x \in DOMAIN vr.h_action :
        vr.h_action[x].result # NoneValue /\ vr.h_action[x].result.type # "bool"}}

\* C17: get_result_value_map has an entry for a field key exactly when some
\* action recorded for that field returned a value that is neither None
\* nor a boolean, and the entry holds such a returned value; boolean and
\* None results never appear in the map.
C17_ValueMapHoldsValues ==
    [][(rcall' # rcall /\ rcall'.op = "get_result_value_map") =>
          LET h_results == results[rcall'.self]
              map == rcall'.out.map
          IN /\ rcall'.out.error = NoneV
             /\ DOMAIN map = {key \in DOMAIN h_results : ValuesOf(rheap[h_results[key]]) # {}}
             /\ \A key \in DOMAIN map :
                   /\ map[key] \in ValuesOf(rheap[h_results[key]])
                   /\ map[key] # NoneValue /\ map[key].type # "bool"]_vars

(* ---------------------------------------------------------------------- *)
(* Concurrent validation requests.  Every request has a Validator of its   *)
(* own and runs Validator.validate, hence Form.validate, against the one   *)
(* shared Form and the shared ValidatorActions; the requests interleave    *)
(* between the statements of Form.validate's loop.                         *)
(* ---------------------------------------------------------------------- *)
Requests == {"r1", "r2"}

VALIDATOR_PARAM == "src.main.Validator"
FORM_PARAM == "src.main.Form"
VALIDATOR_RESULTS_PARAM == "src.main.ValidatorResults"
FIELD_PARAM == "src.main.Field"

\* the Forms the processed resources may hold
SharedForms ==
    LET a0 == NewField("A", "form", 1, 0, <<"r">>)
        b1 == NewField("B", "form", 2, 1, <<"r", ",", "e">>)
        b0 == NewField("B", "form", 2, 0, <<"e">>)
    IN {add_field(NewForm(NoneV), a0),
        add_field(add_field(NewForm(NoneV), a0), b1),
        add_field(add_field(NewForm(NoneV), a0), b0)}

\* what the action methods return for a request's bean, by the key of the
\* Field they are handed and by action name
RequestOutcomes ==
    {[k \in Keys |-> [name \in ActionNames |-> TRUE]],
     [k \in Keys |-> [name \in ActionNames |-> k = "A"]],
     [k \in Keys |-> [name \in ActionNames |-> k = "B" /\ name = Required]]}

\* the mutant of ParamsOf: every request works on one parameter map
ParamsOf_Shared(request) == "r1"

\* Validator.__init__: self.__parameters = {} belongs to the request's Validator
ParamsOf(request) == request

\* a request that has not called validate yet
NewRequest ==
    [pc |-> "idle", page |-> 0, field_name |-> NoneV, o |-> NoneObj, todo |-> <<>>, i |-> 1,
     results |-> EmptyMap, error |-> NoneV, overlapped |-> FALSE]

\* another request is between its first and its last statement
OthersRunning(request) ==
    \E other \in Requests \ {request} : reqs.req[other].pc \in {"loop", "field"}

\* Validator.validate up to the loop of Form.validate: the Validator and
\* the Form go to the parameter map, Form.validate allocates its
\* ValidatorResults, stores it in the map and selects the fields
Begin(request, page, field_name, o) ==
    LET named == field_name # NoneV /\ field_name # ""
        unknown == named /\ field_name \notin DOMAIN vform.hFields
        own == ParamsOf(request)
        params == Put(Put(Put(reqs.params[own], VALIDATOR_PARAM, [validator |-> request]),
                          FORM_PARAM, [form |-> "vform"]),
                      VALIDATOR_RESULTS_PARAM, [results |-> request])
    IN /\ reqs.req[request].pc = "idle"
       /\ reqs' = [req |-> [reqs.req EXCEPT ![request] =
                       [pc |-> IF unknown THEN "done" ELSE "loop",
                        page |-> page, field_name |-> field_name, o |-> o,
                        todo |-> IF unknown THEN <<>>
                                 ELSE IF named THEN <<vform.hFields[field_name]>>
                                 ELSE vform.lFields,
                        i |-> 1, results |-> EmptyMap,
                        error |-> IF unknown THEN "ValidatorException" ELSE NoneV,
                        overlapped |-> OthersRunning(request)]],
                   params |-> [reqs.params EXCEPT ![own] = params]]
       /\ UNCHANGED <<vform, actions, vout, resultVars, formVars, resVars, routine, threadVars>>

\* Form.validate: params[Validator.FIELD_PARAM] = field, or the return
\* once the fields are exhausted
SetField(request) ==
    LET req == reqs.req[request]
        own == ParamsOf(request)
    IN /\ req.pc = "loop"
       /\ IF req.i > Len(req.todo)
          THEN reqs' = [reqs EXCEPT !.req[request].pc = "done"]
          ELSE reqs' = [req |-> [reqs.req EXCEPT ![request].pc = "field",
                                                 ![request].overlapped = @ \/ OthersRunning(request)],
                        params |-> [reqs.params EXCEPT ![own] = Put(@, FIELD_PARAM, req.todo[req.i])]]
       /\ UNCHANGED <<vform, actions, vout, resultVars, formVars, resVars, routine, threadVars>>

\* Form.validate: if field.get_page() <= page: results.merge(field.validate(params, actions));
\* the action methods are handed the parameter map and find the Field in it
ValidateField(request) ==
    LET req == reqs.req[request]
        field == req.todo[req.i]
        handed == reqs.params[ParamsOf(request)][FIELD_PARAM]
        pass == Field_validate(field, actions, req.o[handed.key])
    IN /\ req.pc = "field"
       /\ reqs' = [reqs EXCEPT !.req[request].pc = "loop",
                               !.req[request].i = @ + 1,
                               !.req[request].overlapped = @ \/ OthersRunning(request),
                               !.req[request].results =
                                   IF PageAllows(field, req.page) THEN ResultsMerge(@, pass.results) ELSE @]
       /\ UNCHANGED <<vform, actions, vout, resultVars, formVars, resVars, routine, threadVars>>

\* processed resources with one Form, and two requests not yet started
InitRequests ==
    /\ IdleForms /\ IdleResources /\ IdleResults /\ IdleRoutines /\ IdleThreads
    /\ vform \in SharedForms
    /\ actions \in {[name \in ActionNames |-> NewAction(<<>>)],
                    [name \in ActionNames |-> NewAction(IF name = Email THEN <<"r">> ELSE <<>>)]}
    /\ vout = NoneObj
    /\ reqs = [req |-> [request \in Requests |-> NewRequest],
               params |-> [request \in Requests |-> EmptyMap]]

\* the field names a request passes: none, a Field of the Form, a key the
\* Form may lack, an unknown key
RequestFieldNames == {NoneV} \cup Keys \cup {"Z"}

NextRequests ==
    \/ \E request \in Requests, page \in Pages, field_name \in RequestFieldNames, o \in RequestOutcomes :
          Begin(request, page, field_name, o)
    \/ \E request \in Requests : SetField(request)
    \/ \E request \in Requests : ValidateField(request)

SpecRequests == InitRequests /\ [][NextRequests]_vars

\* Form.validate run alone: every action method is handed the Field the
\* loop is at
RECURSIVE AloneLoop(_, _, _, _, _, _)
AloneLoop(lFields, i, acts, page, o, h_results) ==
    IF i > Len(lFields) THEN h_results
    ELSE AloneLoop(lFields, i + 1, acts, page, o,
             IF PageAllows(lFields[i], page)
             THEN ResultsMerge(h_results, Field_validate(lFields[i], acts, o[lFields[i].key]).results)
             ELSE h_results)

Alone(form, acts, page, field_name, o) ==
    IF field_name # NoneV /\ field_name # ""
    THEN IF field_name \notin DOMAIN form.hFields
         THEN [error |-> "ValidatorException", results |-> EmptyMap]
         ELSE [error |-> NoneV, results |-> AloneLoop(<<form.hFields[field_name]>>, 1, acts, page, o, EmptyMap)]
    ELSE [error |-> NoneV, results |-> AloneLoop(form.lFields, 1, acts, page, o, EmptyMap)]

\* C18: concurrent validation requests against the same processed resources
\* do not interfere: no step of a request changes the shared Form or the
\* shared ValidatorActions, a parameter map is written only by the steps of
\* the request it belongs to, every request has a ValidatorResults of its
\* own, and a finished request holds the result it would get when run alone.
C18_RequestsDoNotInterfere ==
    [][/\ vform' = vform /\ actions' = actions
       /\ \A request \in Requests :
             /\ reqs'.params[request] # reqs.params[request] =>
                   /\ reqs'.req[request] # reqs.req[request]
                   /\ \A other \in Requests \ {request} : reqs'.req[other] = reqs.req[other]
             /\ reqs'.req[request].pc # "idle" =>
                   reqs'.params[request][VALIDATOR_RESULTS_PARAM] = [results |-> request]
             /\ reqs'.req[request].pc = "done" =>
                   LET req == reqs'.req[request]
                   IN [error |-> req.error, results |-> req.results]
                         = Alone(vform, actions, req.page, req.field_name, req.o)]_vars

\* two requests that ran interleaved on a Form of two fields have both
\* finished, with different results
C18_Witness ==
    /\ reqs # EmptyMap
    /\ \A request \in Requests :
          /\ reqs.req[request].pc = "done"
          /\ reqs.req[request].overlapped
          /\ reqs.req[request].i = 3
    /\ DOMAIN reqs.req["r1"].results = {"A", "B"}
    /\ reqs.req["r1"].results # reqs.req["r2"].results

(* ---------------------------------------------------------------------- *)
(* Validator: asking for the result of a form the resources may not hold   *)
(* ---------------------------------------------------------------------- *)
\* form names a Validator is made for: one that FormSets hold, one that none holds
ValidatorFormNames == FormKeys \cup {"missingForm"}

\* the LOCALE_PARAM of a request: a locale object, or NoneObj when not set
LocaleParams ==
    {NoneObj} \cup {[language |-> l, country |-> c, variant |-> v] :
                       l \in Languages, c \in Countries, v \in Variants}

\* what a caller can invoke on class Validator to get a result
ValidatorMethods == {"validate"}

\* Validator.validate: without a LOCALE_PARAM the locale is the string
\* getdefaultlocale()[0] (or None), which has no attribute language; a
\* Form that is found is validated, and a Form that is not found gives an
\* empty ValidatorResults
Validator_validate(h, d, locale, form_name) ==
    IF locale = NoneObj
    THEN [error |-> "AttributeError", validated |-> NoneObj, results |-> NoneObj]
    ELSE LET form == get_form(h, d, locale.language, locale.country, locale.variant, form_name)
         IN IF form # NoneObj
            THEN [error |-> NoneV, validated |-> form, results |-> [of |-> form]]
            ELSE [error |-> NoneV, validated |-> NoneObj, results |-> EmptyMap]

\* validator.validate() or, as the test writes it, validator.get_result(),
\* on Validator(resources, form_name) with this LOCALE_PARAM
ValidatorCall(method, locale, form_name) ==
    /\ got' = [method |-> method, locale |-> locale, form_name |-> form_name,
               out |-> IF method \in ValidatorMethods
                       THEN Validator_validate(hFormSets, defaultFormSet, locale, form_name)
                       ELSE [error |-> "AttributeError", validated |-> NoneObj, results |-> NoneObj]]
    /\ UNCHANGED <<hFormSets, defaultFormSet, formVars, valVars, routine, threadVars>>

NextValidator ==
    \/ \E l \in Languages, c \in Countries, v \in Variants, names \in SUBSET FormKeys :
          AddFormSet(l, c, v, names)
    \/ \E method \in {"validate", "get_result"}, locale \in LocaleParams, form_name \in ValidatorFormNames :
          ValidatorCall(method, locale, form_name)

SpecValidator == InitRes /\ [][NextValidator]_vars

\* no FormSet of the fallback chain of this locale holds a Form of the name
NowhereInChain(h, d, locale, form_name) ==
    \A level \in {RegisteredFor(h, d, locale.language, locale.country, locale.variant),
                  RegisteredFor(h, d, locale.language, locale.country, NoneV),
                  RegisteredFor(h, d, locale.language, NoneV, NoneV),
                  d} :
        level = NoneObj \/ form_name \notin level.forms

\* C19 (as claimed): when no FormSet along the whole fallback chain holds
\* the requested form name, asking the Validator for its result raises a
\* ValidatorException.
C19_MissingFormRaises ==
    (/\ got # NoneObj
     /\ got.locale # NoneObj
     /\ NowhereInChain(hFormSets, defaultFormSet, got.locale, got.form_name))
        => got.out.error = "ValidatorException"

(* ---------------------------------------------------------------------- *)
(* routines: CheckDigit, CodeValidator, ISBNValidator.  A string is the     *)
(* sequence of its characters, wrapped so that None and a raised error can  *)
(* stand where a string is expected.                                        *)
(* ---------------------------------------------------------------------- *)
Str(s) == [none |-> FALSE, error |-> NoneV, s |-> s]
NoneStr == [none |-> TRUE, error |-> NoneV, s |-> <<>>]
Raise(e) == [none |-> FALSE, error |-> e, s |-> <<>>]

DigitValue ==
    [c \in {"0", "1", "2", "3", "4", "5", "6", "7", "8", "9"} |->
        CASE c = "0" -> 0 [] c = "1" -> 1 [] c = "2" -> 2 [] c = "3" -> 3 [] c = "4" -> 4
          [] c = "5" -> 5 [] c = "6" -> 6 [] c = "7" -> 7 [] c = "8" -> 8 [] c = "9" -> 9]

DigitChars == DOMAIN DigitValue

IsDigits(s) == \A i \in 1..Len(s) : s[i] \in DigitChars

RECURSIVE SeqSum(_)
SeqSum(s) == IF s = <<>> THEN 0 ELSE Head(s) + SeqSum(Tail(s))

RECURSIVE Flatten(_)
Flatten(parts) == IF parts = <<>> THEN <<>> ELSE Head(parts) \o Flatten(Tail(parts))

\* the check digit routines ISBNValidator names: modulus, the weight of a
\* character by its position from the right, and whether X stands for 10
ISBN10_CHECK_DIGIT == [name |-> "ISBN10", modulus |-> 11, x |-> TRUE]
EAN13_CHECK_DIGIT == [name |-> "EAN13", modulus |-> 10, x |-> FALSE]
LUHN_CHECK_DIGIT == [name |-> "Luhn", modulus |-> 10, x |-> FALSE]

\* EAN13CheckDigit.POSITION_WEIGHT
POSITION_WEIGHT == <<3, 1>>

\* the mutant of LuhnCheckDigit_weighted_value: a doubled value is kept as it is
LuhnCheckDigit_weighted_value_NoFold(char_value, right_pos) ==
    char_value * (IF right_pos % 2 = 0 THEN 2 ELSE 1)

\* LuhnCheckDigit._weighted_value: every second character from the right is
\* doubled, and a doubled value above 9 loses 9
LuhnCheckDigit_weighted_value(char_value, right_pos) ==
    LET weight == IF right_pos % 2 = 0 THEN 2 ELSE 1
        weighted == char_value * weight
    IN IF weighted > 9 THEN weighted - 9 ELSE weighted

\* the mutant of weighted_value: every position weighs the same
weighted_value_Flat(cd, char_value, right_pos) == char_value

\* _weighted_value: EAN-13 weighs by POSITION_WEIGHT[right_pos % 2], Luhn
\* doubles every second character, ISBN-10 weighs by the position from the
\* right
weighted_value(cd, char_value, right_pos) ==
    IF cd.name = "EAN13" THEN char_value * POSITION_WEIGHT[(right_pos % 2) + 1]
    ELSE IF cd.name = "Luhn" THEN LuhnCheckDigit_weighted_value(char_value, right_pos)
    ELSE char_value * right_pos

\* the display character of a check value
ToCheckDigit(cd, value) ==
    IF value = 10 THEN "X"
    ELSE CHOOSE c \in DigitChars : DigitValue[c] = value

\* CheckDigit.calculate on a code without its check digit
calculate(cd, body) ==
    IF body = <<>> \/ ~IsDigits(body) THEN Raise("CheckDigitException")
    ELSE LET n == Len(body)
             total == SeqSum([i \in 1..n |-> weighted_value(cd, DigitValue[body[i]], n - i + 2)])
             value == (cd.modulus - (total % cd.modulus)) % cd.modulus
         IN IF value = 10 /\ ~cd.x THEN Raise("CheckDigitException")
            ELSE Str(<<ToCheckDigit(cd, value)>>)

\* the outcome of a call that returns a boolean or raises
ReturnedBool(value) == [error |-> NoneV, value |-> value]
RaisedBool(e) == [error |-> e, value |-> FALSE]

\* the trailing check character equals the calculated one; a failed
\* calculation is passed on as it is
Compared(digit, check) ==
    IF digit.error # NoneV THEN RaisedBool(digit.error) ELSE ReturnedBool(digit.s = <<check>>)

\* the mutant of ModulusCheckDigit_is_valid: the CheckDigitException of the
\* calculation is not caught
ModulusCheckDigit_is_valid_Uncaught(cd, code) ==
    IF code.none \/ code.s = <<>> THEN ReturnedBool(FALSE)
    ELSE Compared(calculate(cd, SubSeq(code.s, 1, Len(code.s) - 1)), code.s[Len(code.s)])

\* ModulusCheckDigit.is_valid on a code with its check digit: None and the
\* empty string are not valid, a CheckDigitException of the calculation is
\* caught and gives False
ModulusCheckDigit_is_valid(cd, code) ==
    IF code.none \/ code.s = <<>> THEN ReturnedBool(FALSE)
    ELSE ReturnedBool(Compared(calculate(cd, SubSeq(code.s, 1, Len(code.s) - 1)), code.s[Len(code.s)]).value)

\* CheckDigit.is_valid as CodeValidator asks for it
CheckDigit_is_valid(cd, code) == ModulusCheckDigit_is_valid(cd, Str(code)).value

\* the parts of a string between separators (a hyphen or a blank)
Parts(s) == Split([i \in 1..Len(s) |-> IF s[i] = " " THEN "-" ELSE s[i]], "-")

\* the groups of a match are digits, between one and max of them
Group(part, max) == Len(part) >= 1 /\ Len(part) <= max /\ IsDigits(part)

\* ISBNValidator.ISBN10_REGEX: NoneStr when the string does not match, else
\* its captured groups joined
ISBN10_REGEX(s) ==
    LET parts == Parts(s)
    IN IF Len(s) = 10 /\ IsDigits(SubSeq(s, 1, 9)) /\ s[10] \in DigitChars \cup {"X"}
       THEN Str(s)
       ELSE IF /\ Len(parts) = 4
               /\ Group(parts[1], 5) /\ Group(parts[2], 7) /\ Group(parts[3], 6)
               /\ Len(parts[4]) = 1 /\ parts[4][1] \in DigitChars \cup {"X"}
       THEN Str(Flatten(parts))
       ELSE NoneStr

\* ISBNValidator.ISBN13_REGEX
ISBN13_REGEX(s) ==
    LET parts == Parts(s)
        prefix(t) == t = <<"9", "7", "8">> \/ t = <<"9", "7", "9">>
    IN IF Len(s) = 13 /\ prefix(SubSeq(s, 1, 3)) /\ IsDigits(s)
       THEN Str(s)
       ELSE IF /\ Len(parts) = 5
               /\ prefix(parts[1])
               /\ Group(parts[2], 5) /\ Group(parts[3], 7) /\ Group(parts[4], 6)
               /\ Group(parts[5], 1)
       THEN Str(Flatten(parts))
       ELSE NoneStr

\* RegexValidator.validate for the patterns above
Regex_validate(regex, s) ==
    IF regex = "ISBN10_REGEX" THEN ISBN10_REGEX(s) ELSE ISBN13_REGEX(s)

\* CodeValidator(regex, length, checkdigit) and CodeValidator(regex, min_length, max_length, checkdigit);
\* no regex is NoneV, no bound is -1, no check digit is NoneObj
CodeValidator(regex, min_length, max_length, checkdigit) ==
    [regex |-> regex, min_length |-> min_length, max_length |-> max_length, checkdigit |-> checkdigit]

\* CodeValidator.validate: the regex on the raw input gives the candidate,
\* then the length bounds, then the check digit
CodeValidator_validate(cv, code) ==
    IF code.none THEN NoneStr
    ELSE LET candidate == IF cv.regex = NoneV THEN code ELSE Regex_validate(cv.regex, code.s)
         IN IF candidate.none THEN NoneStr
            ELSE IF cv.min_length >= 0 /\ Len(candidate.s) < cv.min_length THEN NoneStr
            ELSE IF cv.max_length >= 0 /\ Len(candidate.s) > cv.max_length THEN NoneStr
            ELSE IF cv.checkdigit # NoneObj /\ ~CheckDigit_is_valid(cv.checkdigit, candidate.s) THEN NoneStr
            ELSE candidate

\* CodeValidator.is_valid
CodeValidator_is_valid(cv, code) == ~CodeValidator_validate(cv, code).none

\* ISBNValidator.__init__
ISBN_10_LEN == 10
isbn10_validator == CodeValidator("ISBN10_REGEX", 10, 10, ISBN10_CHECK_DIGIT)
isbn13_validator == CodeValidator("ISBN13_REGEX", 13, 13, EAN13_CHECK_DIGIT)

is_valid_isbn10(code) == CodeValidator_is_valid(isbn10_validator, code)

is_valid_isbn13(code) == CodeValidator_is_valid(isbn13_validator, code)

\* the mutant of ISBNValidator_is_valid: only ISBN-13 codes count
ISBNValidator_is_valid_Only13(code) == is_valid_isbn13(code)

\* ISBNValidator.is_valid
ISBNValidator_is_valid(code) == is_valid_isbn10(code) \/ is_valid_isbn13(code)

\* ISBNValidator.validate_isbn10
validate_isbn10(code) == CodeValidator_validate(isbn10_validator, code)

\* ISBNValidator.validate_isbn13
validate_isbn13(code) ==
    IF is_valid_isbn13(code) THEN CodeValidator_validate(isbn13_validator, code) ELSE NoneStr

\* the mutant of convert_to_isbn13: the prefix is put before the whole
\* ISBN-10 code, its check digit kept
convert_to_isbn13_KeepDigit(isbn10) ==
    IF isbn10.none THEN NoneStr ELSE Str(<<"9", "7", "8">> \o Strip(isbn10.s))

\* ISBNValidator.convert_to_isbn13
convert_to_isbn13(isbn10) ==
    IF isbn10.none THEN NoneStr
    ELSE LET stripped == Strip(isbn10.s)
         IN IF Len(stripped) # ISBN_10_LEN THEN Raise("ValueError")
            ELSE LET isbn13 == <<"9", "7", "8">> \o SubSeq(stripped, 1, Len(stripped) - 1)
                     checkDigit == calculate(isbn13_validator.checkdigit, isbn13)
                 IN IF checkDigit.error # NoneV THEN Raise("ValueError")
                    ELSE Str(isbn13 \o checkDigit.s)

\* ISBNValidator.validate
ISBNValidator_validate(convert, code) ==
    LET result13 == validate_isbn13(code)
        result10 == validate_isbn10(code)
    IN IF ~result13.none THEN result13
       ELSE IF ~result10.none /\ convert THEN convert_to_isbn13(result10)
       ELSE result10

\* the inputs: None, and strings that are and are not ISBN codes
CodeInputs ==
    {NoneStr,
     Str(<<>>),
     Str(<<"1", "9", "3", "0", "1", "1", "0", "9", "9", "5">>),
     Str(<<"1", "9", "3", "0", "1", "1", "0", "9", "9", "0">>),
     Str(<<"1", "2", "3", "4", "5", "6", "7", "8", "9", "X">>),
     Str(<<"1", "-", "9", "3", "0", "1", "1", "0", "-", "9", "9", "-", "5">>),
     Str(<<"1", " ", "9", "3", "0", "1", "1", "0", " ", "9", "9", " ", "5">>),
     Str(<<"1", "-", "9", "3", "0", "1", "1", "0", "-", "9", "9", "-", "0">>),
     Str(<<"9", "7", "8", "1", "9", "3", "0", "1", "1", "0", "9", "9", "1">>),
     Str(<<"9", "7", "8", "1", "9", "3", "0", "1", "1", "0", "9", "9", "2">>),
     Str(<<"9", "7", "8", "-", "1", "-", "9", "3", "0", "1", "1", "0", "-", "9", "9", "-", "1">>),
     Str(<<"9", "7", "8", "1", "9", "3", "0", "1", "1", "0", "9", "9", "X">>),
     Str(<<"1", "9", "3", "0", "1", "1", "0", "9", "9">>),
     Str(<<"0", "0", "0", "0", "0", "0", "0", "0", "0", "0">>),
     Str(<<"9", "7", "8", "1", "9", "3", "0", "1", "1", "0", "9", "9", "1", "1">>),
     Str(<<"1", "-", "9", "3", "0", "1", "1", "0", "9", "-", "9", "5">>),
     Str(<<" ", "1", "9", "3", "0", "1", "1", "0", "9", "9", "5">>),
     Str(<<"9", "7", "9", "-", "1", "-", "9", "3", "0", "1", "1", "0", "-", "9", "9", "-", "1">>)}

\* the validators: ISBNValidator with and without conversion, and every
\* CodeValidator of these regexes, length bounds and check digits
CodeValidators ==
    {[class |-> "ISBNValidator", convert |-> c, cv |-> NoneObj] : c \in BOOLEAN}
    \cup {[class |-> "CodeValidator", convert |-> FALSE, cv |-> CodeValidator(regex, bounds[1], bounds[2], cd)] :
             regex \in {NoneV, "ISBN10_REGEX", "ISBN13_REGEX"},
             bounds \in {<<-1, -1>>, <<10, 10>>, <<13, 13>>, <<10, 13>>},
             cd \in {NoneObj, ISBN10_CHECK_DIGIT, EAN13_CHECK_DIGIT}}

\* validator.is_valid(code) and validator.validate(code) on one input
CheckCode(validator, code) ==
    /\ routine' = [validator |-> validator, code |-> code,
                   is_valid |-> IF validator.class = "ISBNValidator"
                                THEN ISBNValidator_is_valid(code)
                                ELSE CodeValidator_is_valid(validator.cv, code),
                   validate |-> IF validator.class = "ISBNValidator"
                                THEN ISBNValidator_validate(validator.convert, code)
                                ELSE CodeValidator_validate(validator.cv, code)]
    /\ UNCHANGED <<formVars, resVars, valVars, threadVars>>

InitCodes == IdleForms /\ IdleResources /\ IdleValidation /\ IdleRoutines /\ IdleThreads

NextCodes == \E validator \in CodeValidators, code \in CodeInputs : CheckCode(validator, code)

SpecCodes == InitCodes /\ [][NextCodes]_vars

\* C20: for every input (including None), validate(code) returns None
\* exactly when is_valid(code) returns False, for every CodeValidator
\* configuration and for ISBNValidator.
C20_ValidateNoneIffInvalid ==
    routine # NoneObj =>
        /\ routine.validate.error = NoneV
        /\ routine.validate.none <=> ~routine.is_valid

\* an ISBN-10 code written with separators is valid for the converting
\* ISBNValidator, which returns it as an ISBN-13 code
C20_Witness ==
    /\ routine # NoneObj
    /\ routine.validator.class = "ISBNValidator" /\ routine.validator.convert
    /\ routine.code = Str(<<"1", "-", "9", "3", "0", "1", "1", "0", "-", "9", "9", "-", "5">>)
    /\ routine.is_valid
    /\ routine.validate = Str(<<"9", "7", "8", "1", "9", "3", "0", "1", "1", "0", "9", "9", "1">>)

(* ---------------------------------------------------------------------- *)
(* Check digit routines on their own and behind a CodeValidator: the calls  *)
(* checkdigit.is_valid(code), validator.is_valid(code),                     *)
(* validator.validate(code) and checkdigit.calculate(result[:-1]).          *)
(* ---------------------------------------------------------------------- *)
CheckDigits == {ISBN10_CHECK_DIGIT, EAN13_CHECK_DIGIT, LUHN_CHECK_DIGIT}

CheckChars == DigitChars \cup {"X"}

LUHN_BODY == <<"1", "9", "3", "0", "1", "1", "0", "9", "9">>
EAN_BODY == <<"9", "7", "8", "1", "9", "3", "0", "1", "1", "0", "9", "9">>

\* codes without their check digit
DigitBodies ==
    {LUHN_BODY,
     EAN_BODY,
     <<"4", "0", "0", "6", "3", "8", "1", "3", "3", "3", "9", "3">>,
     <<"5", "9", "0", "1", "2", "3", "4", "1", "2", "3", "4", "5">>,
     <<"9", "7", "8", "0", "2", "0", "1", "3", "7", "9", "6">>,
     <<"1", "2", "3", "4", "5", "6", "7", "8", "9">>}

\* the inputs: every body with every check character, None, the empty
\* string, strings of one character, strings with a character that is no
\* digit, and codes written with separators
DigitInputs ==
    {Str(body \o <<c>>) : body \in DigitBodies, c \in CheckChars}
    \cup {NoneStr,
          Str(<<>>),
          Str(<<"5">>),
          Str(<<"X">>),
          Str(<<"1", "9", "3", "0", "X", "1", "0", "9", "9", "5">>),
          Str(<<"9", "7", "8", "1", "9", "3", "0", "1", "1", "0", "-", "9", "1">>),
          Str(<<"1", "-", "9", "3", "0", "1", "1", "0", "-", "9", "9", "-", "5">>),
          Str(<<"9", "7", "8", "-", "1", "-", "9", "3", "0", "1", "1", "0", "-", "9", "9", "-", "1">>)}

\* ISBNValidator with and without conversion, and every CodeValidator with
\* a check digit routine
DigitValidators ==
    {[class |-> "ISBNValidator", convert |-> c, cv |-> NoneObj] : c \in BOOLEAN}
    \cup {[class |-> "CodeValidator", convert |-> FALSE, cv |-> CodeValidator(regex, bounds[1], bounds[2], cd)] :
             regex \in {NoneV, "ISBN10_REGEX", "ISBN13_REGEX"},
             bounds \in {<<-1, -1>>, <<10, 10>>, <<13, 13>>},
             cd \in CheckDigits}

\* the check digit routine behind a code of this validator: its own, and for
\* ISBNValidator the EAN-13 routine for thirteen characters and the ISBN-10
\* routine otherwise
CheckDigitOf(validator, s) ==
    IF validator.class = "CodeValidator" THEN validator.cv.checkdigit
    ELSE IF Len(s) = 13 THEN isbn13_validator.checkdigit
    ELSE isbn10_validator.checkdigit

\* calculate on an accepted code without its last character
Recalculated(validator, result) ==
    IF result.none \/ result.error # NoneV \/ result.s = <<>> THEN NoneStr
    ELSE calculate(CheckDigitOf(validator, result.s), SubSeq(result.s, 1, Len(result.s) - 1))

\* the calls on one input
CheckDigitCalls(validator, code, result) ==
    /\ routine' = [validator |-> validator, code |-> code,
                   digit_valid |-> ModulusCheckDigit_is_valid(CheckDigitOf(validator, code.s), code),
                   is_valid |-> IF validator.class = "ISBNValidator"
                                THEN ISBNValidator_is_valid(code)
                                ELSE CodeValidator_is_valid(validator.cv, code),
                   validate |-> result,
                   calculate |-> Recalculated(validator, result)]
    /\ UNCHANGED <<formVars, resVars, valVars, threadVars>>

CheckDigitCode(validator, code) ==
    CheckDigitCalls(validator, code,
                    IF validator.class = "ISBNValidator"
                    THEN ISBNValidator_validate(validator.convert, code)
                    ELSE CodeValidator_validate(validator.cv, code))

InitDigits == IdleForms /\ IdleResources /\ IdleValidation /\ IdleRoutines /\ IdleThreads

NextDigits == \E validator \in DigitValidators, code \in DigitInputs : CheckDigitCode(validator, code)

SpecDigits == InitDigits /\ [][NextDigits]_vars

\* a character that the check digit routine does not read: no digit, and
\* not the X that stands for 10 in the last place
OutsideAlphabet(cd, s) ==
    \E i \in 1..Len(s) : s[i] \notin DigitChars /\ ~(cd.x /\ i = Len(s) /\ s[i] = "X")

\* the length is outside the bounds the CodeValidator was given
WrongLength(cv, s) ==
    \/ cv.min_length >= 0 /\ Len(s) < cv.min_length
    \/ cv.max_length >= 0 /\ Len(s) > cv.max_length

\* C21: is_valid never raises; for an input that is None or empty, that
\* holds a character outside the alphabet of the check digit routine or
\* whose length is outside the validator's bounds, is_valid returns False
\* and validate returns None (a validator with a regex judges the code the
\* regex captured, so its answer is claimed for the validators without one).
C21_MalformedIsInvalid ==
    (routine # NoneObj /\ routine.validator.class = "CodeValidator") =>
        LET cv == routine.validator.cv
            code == routine.code
        IN /\ routine.digit_valid.error = NoneV
           /\ routine.validate.error = NoneV
           /\ (code.none \/ code.s = <<>>) =>
                  /\ ~routine.digit_valid.value
                  /\ ~routine.is_valid
                  /\ routine.validate.none
           /\ OutsideAlphabet(cv.checkdigit, code.s) => ~routine.digit_valid.value
           /\ (cv.regex = NoneV /\ (OutsideAlphabet(cv.checkdigit, code.s) \/ WrongLength(cv, code.s))) =>
                  /\ ~routine.is_valid
                  /\ routine.validate.none

\* 978193011099X under the EAN-13 routine without regex and bounds
C21_Witness ==
    /\ routine # NoneObj
    /\ routine.validator.class = "CodeValidator"
    /\ routine.validator.cv = CodeValidator(NoneV, -1, -1, EAN13_CHECK_DIGIT)
    /\ routine.code = Str(EAN_BODY \o <<"X">>)
    /\ routine.digit_valid = ReturnedBool(FALSE)
    /\ ~routine.is_valid
    /\ routine.validate = NoneStr

\* C22: for every check digit routine and every code that validate
\* accepts, calculate on the returned code without its last character gives
\* that last character.
C22_RecalculatedDigit ==
    (routine # NoneObj /\ ~routine.validate.none) =>
        /\ routine.validate.error = NoneV
        /\ routine.validate.s # <<>>
        /\ routine.calculate = Str(<<routine.validate.s[Len(routine.validate.s)]>>)

\* an ISBN-10 code converted to ISBN-13: the check digit of the result is the
\* EAN-13 one
C22_Witness ==
    /\ routine # NoneObj
    /\ routine.validator.class = "ISBNValidator" /\ routine.validator.convert
    /\ routine.code = Str(LUHN_BODY \o <<"5">>)
    /\ routine.validate = Str(<<"9", "7", "8">> \o LUHN_BODY \o <<"1">>)
    /\ routine.calculate = Str(<<"1">>)

\* the check characters that the routine accepts after a body
AcceptedDigits(cd, body) ==
    {c \in DigitChars : ModulusCheckDigit_is_valid(cd, Str(body \o <<c>>)).value}

\* this state records the routine's answer on body followed by one digit
DigitAfter(cd, body) ==
    /\ routine # NoneObj
    /\ routine.validator.class = "CodeValidator"
    /\ routine.validator.cv.checkdigit = cd
    /\ ~routine.code.none
    /\ Len(routine.code.s) = Len(body) + 1
    /\ SubSeq(routine.code.s, 1, Len(body)) = body
    /\ routine.code.s[Len(routine.code.s)] \in DigitChars

\* C23: after any body of twelve digits exactly one of the ten digits gives
\* a code the EAN-13 routine accepts, so any other check digit makes a valid
\* code invalid; after 978193011099 that digit is 1.
C23_OneCheckDigit ==
    \A body \in {b \in DigitBodies : Len(b) = 12} :
        DigitAfter(EAN13_CHECK_DIGIT, body) =>
            /\ Cardinality(AcceptedDigits(EAN13_CHECK_DIGIT, body)) = 1
            /\ routine.digit_valid.value <=>
                   routine.code.s[13] \in AcceptedDigits(EAN13_CHECK_DIGIT, body)
            /\ body = EAN_BODY => (routine.digit_valid.value <=> routine.code.s[13] = "1")

\* 9781930110992 is not accepted
C23_Witness ==
    /\ DigitAfter(EAN13_CHECK_DIGIT, EAN_BODY)
    /\ routine.code.s[13] = "2"
    /\ routine.digit_valid = ReturnedBool(FALSE)

\* C24 (amended): the Luhn check digit over the body 193011099 is 2, so
\* 1930110992 is valid under the Luhn routine and every other code from
\* 1930110990 to 1930110999 is invalid.
C24_LuhnDigitIsTwo ==
    DigitAfter(LUHN_CHECK_DIGIT, LUHN_BODY) =>
        /\ calculate(LUHN_CHECK_DIGIT, LUHN_BODY) = Str(<<"2">>)
        /\ routine.digit_valid.value <=> routine.code.s[10] = "2"

\* 1930110992 is accepted by the Luhn routine
C24_Witness ==
    /\ DigitAfter(LUHN_CHECK_DIGIT, LUHN_BODY)
    /\ routine.code.s[10] = "2"
    /\ routine.digit_valid = ReturnedBool(TRUE)

\* C24 (as claimed): the Luhn check digit over the body 193011099 is 5, so
\* 1930110995 is the one valid code from 1930110990 to 1930110999.
C24_LuhnDigitIsFive ==
    DigitAfter(LUHN_CHECK_DIGIT, LUHN_BODY) =>
        /\ calculate(LUHN_CHECK_DIGIT, LUHN_BODY) = Str(<<"5">>)
        /\ routine.digit_valid.value <=> routine.code.s[10] = "5"

\* ISBNValidator(): convert defaults to True
DefaultISBNValidator == [class |-> "ISBNValidator", convert |-> TRUE, cv |-> NoneObj]

\* C25 (as claimed): for every valid ISBN-10, with or without separators,
\* validate on a default-constructed ISBNValidator returns the ten-character
\* code without separators, the value validate_isbn10 returns.
C25_ValidateKeepsIsbn10 ==
    (/\ routine # NoneObj
     /\ routine.validator = DefaultISBNValidator
     /\ is_valid_isbn10(routine.code))
        => /\ routine.validate = validate_isbn10(routine.code)
           /\ Len(routine.validate.s) = ISBN_10_LEN

(* ---------------------------------------------------------------------- *)
(* DomainValidator: get_instance, update_tld_override and                   *)
(* __reset_singletons called from threads.  A call is a sequence of steps:  *)
(* what happens while the class lock is held is one step for the other      *)
(* holders of the lock, a read outside the lock is a step of its own.       *)
(* ---------------------------------------------------------------------- *)
MaxDomainCalls == 3

Threads == {"t1", "t2"}

\* instances are numbered from 1 in the order of their creation; None where
\* an instance is expected
NoInstance == 0

\* ArrayType members a caller passes to update_tld_override
ArrayTypes == {"GENERIC_PLUS", "COUNTRY_CODE_MINUS", "LOCAL_RO"}

\* the tables update_tld_override assigns
OverrideTables == {"COUNTRY_CODE_MINUS", "COUNTRY_CODE_PLUS", "GENERIC_MINUS", "GENERIC_PLUS",
                   "LOCAL_MINUS", "LOCAL_PLUS"}

\* str.lower on the TLDs that are passed
Lower == [tld \in {"apache", "Zeta", "Alpha"} |->
             CASE tld = "apache" -> "apache" [] tld = "Zeta" -> "zeta" [] tld = "Alpha" -> "alpha"]

\* the order list.sort gives the lower-case TLDs
TldOrder == <<"alpha", "apache", "zeta">>

TldLists == {<<>>, <<"apache">>, <<"Zeta", "Alpha">>}

\* list.sort
Sorted(l) == SelectSeq(TldOrder, LAMBDA tld : tld \in Range(l))

\* tlds_cpy = [tld.lower() for tld in tlds]; tlds_cpy.sort()
LowerSorted(tlds) == Sorted([i \in 1..Len(tlds) |-> Lower[tlds[i]]])

\* a thread that is in no call
NoCall == [op |-> NoneV, pc |-> "idle", table |-> NoneV, tlds |-> <<>>, allow_local |-> FALSE,
           later |-> FALSE, out |-> NoneObj]

\* the class attributes after the class body has run
NewDomainValidator ==
    [in_use |-> FALSE, lock |-> NoneV,
     tables |-> [t \in OverrideTables |-> <<>>],
     DOMAIN_VALIDATOR |-> NoInstance, DOMAIN_VALIDATOR_WITH_LOCAL |-> NoInstance,
     instances |-> <<>>,
     returned |-> FALSE, started |-> 0,
     calls |-> [t \in Threads |-> NoCall]]

\* the mutant of InUse: get_instance leaves __in_use as it is
InUse_Unset(d) == d

\* cls.__in_use = True
InUse(d) == [d EXCEPT !.in_use = TRUE]

\* a thread calls a method; later: some get_instance call had returned by then
DomainCall(t, op, table, tlds, allow_local) ==
    /\ domainValidator.calls[t].pc \in {"idle", "done"}
    /\ domainValidator.started < MaxDomainCalls
    /\ domainValidator' =
           [domainValidator EXCEPT
               !.started = @ + 1,
               !.calls[t] = [op |-> op,
                             pc |-> IF op = "update_tld_override" THEN "check" ELSE "lock",
                             table |-> table, tlds |-> tlds, allow_local |-> allow_local,
                             later |-> domainValidator.returned, out |-> NoneObj]]
    /\ UNCHANGED <<formVars, resVars, valVars, routine, defaultValidator>>

\* update_tld_override: if DomainValidator.__in_use: raise Exception(...)
UpdateCheck(t) ==
    /\ domainValidator.calls[t].pc = "check"
    /\ domainValidator' =
           IF domainValidator.in_use
           THEN [domainValidator EXCEPT !.calls[t].pc = "done",
                                        !.calls[t].out = [error |-> "Exception", value |-> NoInstance]]
           ELSE [domainValidator EXCEPT !.calls[t].pc = "lock"]
    /\ UNCHANGED <<formVars, resVars, valVars, routine, defaultValidator>>

\* with cls.__lock: the lock is taken when no thread holds it
Acquire(t) ==
    /\ domainValidator.calls[t].pc = "lock"
    /\ domainValidator.lock = NoneV
    /\ domainValidator' = [domainValidator EXCEPT !.lock = t, !.calls[t].pc = "body"]
    /\ UNCHANGED <<formVars, resVars, valVars, routine, defaultValidator>>

\* update_tld_override under the lock: the table is assigned the sorted
\* lower-case copy, a read-only table raises ValueError; the lock is released
UpdateBody(t) ==
    LET call == domainValidator.calls[t]
    IN /\ call.pc = "body" /\ call.op = "update_tld_override"
       /\ domainValidator' =
              IF call.table \in OverrideTables
              THEN [domainValidator EXCEPT
                       !.tables[call.table] = LowerSorted(call.tlds),
                       !.lock = NoneV,
                       !.calls[t].pc = "done",
                       !.calls[t].out = [error |-> NoneV, value |-> NoInstance]]
              ELSE [domainValidator EXCEPT
                       !.lock = NoneV,
                       !.calls[t].pc = "done",
                       !.calls[t].out = [error |-> "ValueError", value |-> NoInstance]]
       /\ UNCHANGED <<formVars, resVars, valVars, routine, defaultValidator>>

\* get_instance under the lock, first statement: cls.__in_use = True
GetInstanceInUse(t) ==
    LET call == domainValidator.calls[t]
    IN /\ call.pc = "body" /\ call.op = "get_instance"
       /\ domainValidator' = [InUse(domainValidator) EXCEPT !.calls[t].pc = "instance"]
       /\ UNCHANGED <<formVars, resVars, valVars, routine, defaultValidator>>

\* __init_internal: the instance refers to the override tables of the class
NewInstance(d, allow_local) == [allow_local |-> allow_local, my_tables |-> d.tables]

\* the class attribute that holds the shared instance
SingletonOf(allow_local) == IF allow_local THEN "DOMAIN_VALIDATOR_WITH_LOCAL" ELSE "DOMAIN_VALIDATOR"

\* get_instance under the lock, the rest: the shared instance is created if
\* there is none, and returned; the lock is released
GetInstanceReturn(t) ==
    LET call == domainValidator.calls[t]
        attribute == SingletonOf(call.allow_local)
        fresh == Len(domainValidator.instances) + 1
    IN /\ call.pc = "instance"
       /\ domainValidator' =
              IF domainValidator[attribute] = NoInstance
              THEN [domainValidator EXCEPT
                       ![attribute] = fresh,
                       !.instances = Append(@, NewInstance(domainValidator, call.allow_local)),
                       !.lock = NoneV, !.returned = TRUE,
                       !.calls[t].pc = "done",
                       !.calls[t].out = [error |-> NoneV, value |-> fresh]]
              ELSE [domainValidator EXCEPT
                       !.lock = NoneV, !.returned = TRUE,
                       !.calls[t].pc = "done",
                       !.calls[t].out = [error |-> NoneV, value |-> domainValidator[attribute]]]
       /\ UNCHANGED <<formVars, resVars, valVars, routine, defaultValidator>>

\* __reset_singletons under the lock
ResetSingletons(t) ==
    LET call == domainValidator.calls[t]
    IN /\ call.pc = "body" /\ call.op = "__reset_singletons"
       /\ domainValidator' =
              [domainValidator EXCEPT
                  !.DOMAIN_VALIDATOR = NoInstance, !.DOMAIN_VALIDATOR_WITH_LOCAL = NoInstance,
                  !.lock = NoneV,
                  !.calls[t].pc = "done",
                  !.calls[t].out = [error |-> NoneV, value |-> NoInstance]]
       /\ UNCHANGED <<formVars, resVars, valVars, routine, defaultValidator>>

InitDomain ==
    /\ IdleForms /\ IdleResources /\ IdleValidation /\ IdleRoutines
    /\ domainValidator = NewDomainValidator
    /\ defaultValidator = NoneObj

NextDomain ==
    \E t \in Threads :
        \/ \E table \in ArrayTypes, tlds \in TldLists :
               DomainCall(t, "update_tld_override", table, tlds, FALSE)
        \/ \E allow_local \in BOOLEAN : DomainCall(t, "get_instance", NoneV, <<>>, allow_local)
        \/ DomainCall(t, "__reset_singletons", NoneV, <<>>, FALSE)
        \/ UpdateCheck(t)
        \/ Acquire(t)
        \/ UpdateBody(t)
        \/ GetInstanceInUse(t)
        \/ GetInstanceReturn(t)
        \/ ResetSingletons(t)

SpecDomain == InitDomain /\ [][NextDomain]_vars

\* this step is a step of thread t's update_tld_override call
UpdateStep(t) ==
    /\ domainValidator.calls[t].op = "update_tld_override"
    /\ domainValidator'.calls[t] # domainValidator.calls[t]
    /\ domainValidator'.calls[t].op = "update_tld_override"
    /\ domainValidator.calls[t].pc # "done"

\* C26: an update_tld_override call made after a get_instance call has
\* returned raises and leaves every TLD override table unchanged, also after
\* __reset_singletons; only a call made before takes effect.
C26_LaterUpdateRaises ==
    [][\A t \in Threads :
          /\ (UpdateStep(t) /\ domainValidator.calls[t].later) =>
                 /\ domainValidator'.tables = domainValidator.tables
                 /\ domainValidator'.calls[t].out = [error |-> "Exception", value |-> NoInstance]
          /\ (UpdateStep(t) /\ domainValidator'.tables # domainValidator.tables) =>
                 ~domainValidator.calls[t].later]_vars

\* an update_tld_override call made after get_instance and
\* __reset_singletons has raised, the tables being as the class body left them
C26_Witness ==
    /\ domainValidator # NoneObj
    /\ domainValidator.returned
    /\ domainValidator.DOMAIN_VALIDATOR = NoInstance
    /\ domainValidator.tables = NewDomainValidator.tables
    /\ \E t \in Threads :
          /\ domainValidator.calls[t].op = "update_tld_override"
          /\ domainValidator.calls[t].later
          /\ domainValidator.calls[t].tlds = <<"apache">>
          /\ domainValidator.calls[t].table = "GENERIC_PLUS"
          /\ domainValidator.calls[t].out = [error |-> "Exception", value |-> NoInstance]

\* C29 (as claimed): no update_tld_override changes a TLD override table
\* after some get_instance call has returned.
C29_NoUpdateAfterReturn ==
    [][domainValidator'.tables # domainValidator.tables => ~domainValidator.returned]_vars

(* ---------------------------------------------------------------------- *)
(* get_instance of the default validators, called from threads: the test    *)
(* of the class attribute, the construction, the assignment and the return  *)
(* are steps that other threads' steps can come between.                    *)
(* ---------------------------------------------------------------------- *)
MaxInstanceCalls == 3

DefaultValidators == {"DateValidator", "TimeValidator", "CalendarValidator", "IntegerValidator"}

\* a thread in no get_instance call
NoInstanceCall == [cls |-> NoneV, pc |-> "idle", instance |-> NoInstance, out |-> NoInstance]

\* _VALIDATOR = None in every class body; created: the instances constructed
\* of each class, numbered from 1
NewDefaultValidator ==
    [VALIDATOR |-> [cls \in DefaultValidators |-> NoInstance],
     created |-> [cls \in DefaultValidators |-> 0],
     started |-> 0,
     calls |-> [t \in Threads |-> NoInstanceCall]]

\* cls.get_instance() is called
GetInstanceCall(t, cls) ==
    /\ defaultValidator.calls[t].pc \in {"idle", "done"}
    /\ defaultValidator.started < MaxInstanceCalls
    /\ defaultValidator' =
           [defaultValidator EXCEPT
               !.started = @ + 1,
               !.calls[t] = [cls |-> cls, pc |-> "test", instance |-> NoInstance, out |-> NoInstance]]
    /\ UNCHANGED <<formVars, resVars, valVars, routine, domainValidator>>

\* cls.__VALIDATOR is None
IsNone(validator) == validator = NoInstance

\* if cls.__VALIDATOR is None
GetInstanceTest(t) ==
    LET call == defaultValidator.calls[t]
    IN /\ call.pc = "test"
       /\ defaultValidator' =
              [defaultValidator EXCEPT
                  !.calls[t].pc = IF IsNone(defaultValidator.VALIDATOR[call.cls])
                                  THEN "construct" ELSE "return"]
       /\ UNCHANGED <<formVars, resVars, valVars, routine, domainValidator>>

\* cls(): a new instance
GetInstanceConstruct(t) ==
    LET call == defaultValidator.calls[t]
    IN /\ call.pc = "construct"
       /\ defaultValidator' =
              [defaultValidator EXCEPT
                  !.created[call.cls] = @ + 1,
                  !.calls[t].instance = defaultValidator.created[call.cls] + 1,
                  !.calls[t].pc = "assign"]
       /\ UNCHANGED <<formVars, resVars, valVars, routine, domainValidator>>

\* cls.__VALIDATOR = the new instance
GetInstanceAssign(t) ==
    LET call == defaultValidator.calls[t]
    IN /\ call.pc = "assign"
       /\ defaultValidator' =
              [defaultValidator EXCEPT
                  !.VALIDATOR[call.cls] = call.instance,
                  !.calls[t].pc = "return"]
       /\ UNCHANGED <<formVars, resVars, valVars, routine, domainValidator>>

\* return cls.__VALIDATOR
GetInstanceResult(t) ==
    LET call == defaultValidator.calls[t]
    IN /\ call.pc = "return"
       /\ defaultValidator' =
              [defaultValidator EXCEPT
                  !.calls[t].out = defaultValidator.VALIDATOR[call.cls],
                  !.calls[t].pc = "done"]
       /\ UNCHANGED <<formVars, resVars, valVars, routine, domainValidator>>

InitInstances ==
    /\ IdleForms /\ IdleResources /\ IdleValidation /\ IdleRoutines
    /\ domainValidator = NoneObj
    /\ defaultValidator = NewDefaultValidator

NextInstances ==
    \E t \in Threads :
        \/ \E cls \in DefaultValidators : GetInstanceCall(t, cls)
        \/ GetInstanceTest(t)
        \/ GetInstanceConstruct(t)
        \/ GetInstanceAssign(t)
        \/ GetInstanceResult(t)

SpecInstances == InitInstances /\ [][NextInstances]_vars

\* C27 (as claimed): under any interleaving of concurrent first calls to
\* get_instance of a default validator exactly one instance is ever created
\* and every caller receives that same instance.
C27_OneInstance ==
    defaultValidator # NoneObj =>
        \A cls \in DefaultValidators :
            /\ defaultValidator.created[cls] <= 1
            /\ \A t \in Threads :
                   (defaultValidator.calls[t].cls = cls /\ defaultValidator.calls[t].pc = "done")
                       => defaultValidator.calls[t].out = 1

(* ---------------------------------------------------------------------- *)
(* DateValidator.compare_dates.  A datetime is the record of its            *)
(* attributes; no time zone is passed.                                      *)
(* ---------------------------------------------------------------------- *)
Datetimes ==
    [year : {2004, 2005}, month : {8, 9}, day : {1, 23}, hour : {2, 11}]

\* AbstractCalendarValidator.__calculate_compare_result: the attribute of
\* value against that of compare, as -1, 0 or 1
calculate_compare_result(value, compare, field) ==
    IF value[field] < compare[field] THEN -1
    ELSE IF value[field] > compare[field] THEN 1
    ELSE 0

\* AbstractCalendarValidator._compare_time down to the hour
compare_time(value, compare, field) == calculate_compare_result(value, compare, "hour")

\* what _compare does when the comparison named "Compare Day" is reached
CompareDay(day, time, field) == IF day # 0 \/ field = "day" THEN day ELSE time

\* what _compare does when the comparison named "Compare Month" is reached
CompareMonth(month, day, time, field) ==
    IF month # 0 \/ field = "month" THEN month ELSE CompareDay(day, time, field)

\* what _compare does with its first comparison
CompareFirst(first, month, day, time, field) ==
    IF first # 0 \/ field = "year" THEN first ELSE CompareMonth(month, day, time, field)

\* AbstractCalendarValidator._compare: the first comparison is made on the
\* attribute named by field, then month, then day, then the time
compare(value, compare_to, field) ==
    CompareFirst(calculate_compare_result(value, compare_to, field),
                 calculate_compare_result(value, compare_to, "month"),
                 calculate_compare_result(value, compare_to, "day"),
                 compare_time(value, compare_to, field),
                 field)

\* DateValidator.compare_dates without a time zone
compare_dates(value, compare_to) == compare(value, compare_to, "day")

CompareDates(value, compare_to) ==
    /\ routine' = [validator |-> "DateValidator", value |-> value, compare |-> compare_to,
                   out |-> compare_dates(value, compare_to)]
    /\ UNCHANGED <<formVars, resVars, valVars, threadVars>>

InitDates == IdleForms /\ IdleResources /\ IdleValidation /\ IdleRoutines /\ IdleThreads

NextDates == \E value \in Datetimes, compare_to \in Datetimes : CompareDates(value, compare_to)

SpecDates == InitDates /\ [][NextDates]_vars

\* the calendar date as one number that orders by year, then month, then day
DateOrder(d) == (d.year * 100 + d.month) * 100 + d.day

\* C28 (as claimed): compare_dates(value, compare) is -1, 0 or +1 as
\* value's calendar date, ordered by year, then month, then day, is earlier
\* than, equal to or later than compare's, whatever the times of day, also
\* for dates in different months or years.
C28_CompareDatesOrdersByDate ==
    routine # NoneObj =>
        routine.out = (IF DateOrder(routine.value) < DateOrder(routine.compare) THEN -1
                       ELSE IF DateOrder(routine.value) > DateOrder(routine.compare) THEN 1
                       ELSE 0)

(* ---------------------------------------------------------------------- *)
(* Properties of Form processing, checked under Spec                       *)
(* ---------------------------------------------------------------------- *)
KeysOf(l) == {l[i].key : i \in 1..Len(l)}

WithKey(l, k) == SelectSeq(l, LAMBDA f : f.key = k)

\* the Form named by extends is among the forms in scope
Resolves(fs, name) == fs[name].inherit \in DOMAIN fs

\* this step takes the Form from unprocessed to processed
BecomesProcessed(name) == ~forms[name].processed /\ forms'[name].processed

\* the Forms met by following extends from name
RECURSIVE Chain(_, _, _)
Chain(fs, name, seen) ==
    IF Resolves(fs, name) /\ fs[name].inherit \notin seen
    THEN Chain(fs, fs[name].inherit, seen \cup {fs[name].inherit})
    ELSE seen

Ancestors(fs, name) == Chain(fs, name, {})

\* one step of the recursion of _process: from an unprocessed Form to its
\* parent when that is in scope and unprocessed
UnprocessedParent(fs, n) ==
    IF n \in DOMAIN fs /\ ~fs[n].processed /\ Resolves(fs, n) /\ ~fs[fs[n].inherit].processed
    THEN fs[n].inherit
    ELSE NoneV

RECURSIVE Walk(_, _, _)
Walk(fs, n, k) == IF k = 0 THEN n ELSE Walk(fs, UnprocessedParent(fs, n), k - 1)

\* the extends chain from name through unprocessed Forms never ends
UnprocessedCycle(fs, name) == Walk(fs, name, Cardinality(DOMAIN fs)) # NoneV

\* C2: after Form._process, for every key K the Form had declared itself,
\* its field map still holds the Field it held for K and its field list
\* holds for K exactly the Fields it held before: no parent Field of key K
\* has entered either, whatever the parent chain contains.
C2_OwnFieldsKept ==
    [][\A name \in FormNames :
          BecomesProcessed(name) =>
             \A k \in DOMAIN forms[name].hFields :
                /\ k \in DOMAIN forms'[name].hFields
                /\ forms'[name].hFields[k] = forms[name].hFields[k]
                /\ WithKey(forms'[name].lFields, k) = WithKey(forms[name].lFields, k)]_vars

\* a processed Form and its parent both declared a Field of one key, and
\* the Form's map holds its own
C2_Witness ==
    \E name \in FormNames : \E k \in Keys :
       /\ forms[name].processed /\ Resolves(forms, name) /\ forms[name].inherit # name
       /\ \E i \in 1..Len(forms[forms[name].inherit].lFields) :
             LET pf == forms[forms[name].inherit].lFields[i]
             IN pf.key = k /\ pf.owner = forms[name].inherit
       /\ k \in DOMAIN forms[name].hFields /\ forms[name].hFields[k].owner = name

\* C3 (as claimed): after Form._process of a Form whose parent resolves, its
\* field list is the parent's fields whose keys the Form did not declare, in
\* the parent's order, followed by the Form's own fields in declared order.
C3_ParentFieldsThenOwn ==
    [][\A name \in FormNames :
          (BecomesProcessed(name) /\ Resolves(forms, name)) =>
             forms'[name].lFields =
                SelectSeq(forms'[forms[name].inherit].lFields,
                          LAMBDA f : f.key \notin KeysOf(forms[name].lFields))
                \o forms[name].lFields]_vars

\* C4: Form._process called on an already processed Form returns with the
\* forms (field lists, their order, field maps) and every Field's process
\* log exactly as they were: nothing is inherited or processed again.
C4_ReprocessChangesNothing ==
    \A name \in FormNames :
       forms[name].processed =>
          ProcessForm(forms, procLog, name, "global", "local", 1)
             = [forms |-> forms, log |-> procLog, ok |-> TRUE]

\* a processed Form holding an inherited Field and an own, processed Field
C4_Witness ==
    \E name \in FormNames :
       /\ forms[name].processed
       /\ \E i, j \in 1..Len(forms[name].lFields) :
             /\ forms[name].lFields[i].owner # name
             /\ forms[name].lFields[j].owner = name
             /\ forms[name].lFields[j] \in DOMAIN procLog

C8_MissingParentRaises ==
    [][\A name \in FormNames :
          (BecomesProcessed(name) /\ forms[name].inherit # NoneV /\ ~Resolves(forms, name)) =>
             last'.error # NoneV]_vars

\* C9: Form._process returns, leaving the Form processed, exactly when the
\* extends chain followed from the Form through unprocessed Forms has no
\* cycle; on a cycle the recursion never returns.
C9_TerminatesIffAcyclic ==
    \A name \in FormNames :
       LET r == ProcessForm(forms, procLog, name, "global", "local", 1)
       IN /\ r.ok <=> ~UnprocessedCycle(forms, name)
          /\ r.ok => r.forms[name].processed

\* a call on a Form that extends itself has ended in unbounded recursion
C9_Witness ==
    \E name \in FormNames :
       /\ last = Raised("RecursionError", name)
       /\ forms[name].inherit = name
       /\ \E other \in FormNames : forms[other].processed /\ Resolves(forms, other)

\* C10 (as claimed): in every state of every Form each key occurs at most
\* once in the field list and the field map maps each key to the list
\* element of that key.
C10_OneSlotPerKey ==
    \A name \in FormNames :
       LET l == forms[name].lFields
           h == forms[name].hFields
       IN /\ \A i, j \in 1..Len(l) : l[i].key = l[j].key => i = j
          /\ DOMAIN h = KeysOf(l)
          /\ \A i \in 1..Len(l) : h[l[i].key] = l[i]

(* ---------------------------------------------------------------------- *)
(* Properties of the validation pass, checked under SpecValidate           *)
(* ---------------------------------------------------------------------- *)
\* the fields on which field validation ran during the call, in order
FieldsOf(out) == [i \in 1..Len(out.passes) |-> out.passes[i].field]

\* the field a name stands for: the one declared last under that key
NamedField(form, field_name) ==
    CHOOSE f \in Range(form.lFields) :
        f.key = field_name /\ \A g \in Range(form.lFields) : g.key = field_name => g.n <= f.n

\* the depends attribute lists the name: between commas, blanks aside
Mentions(depends, name) ==
    \E a \in 1..Len(depends) :
        LET b == a + Len(name) - 1
        IN /\ b <= Len(depends)
           /\ SubSeq(depends, a, b) = name
           /\ (a = 1 \/ depends[a - 1] \in {",", " "})
           /\ (b = Len(depends) \/ depends[b + 1] \in {",", " "})

\* C6: during one validation pass over a field, an action whose own depends
\* list names an action that has already run and failed for that field in
\* that pass is not invoked and has no entry in the field's ValidatorResult
\* (contains_action is false for it).
C6_FailedDependencySkips ==
    vout # NoneObj =>
       \A p \in 1..Len(vout.passes) :
          LET pass == vout.passes[p]
          IN \A i \in 1..Len(pass.steps) :
                (\E j \in 1..(i - 1) :
                    /\ pass.steps[j].ran /\ ~pass.steps[j].valid
                    /\ Mentions(actions[pass.steps[i].action].depends, pass.steps[j].action))
                => /\ ~pass.steps[i].ran
                   /\ ~contains_action(pass.result, pass.steps[i].action)

\* a pass in which an action was skipped after the action it depends on failed
C6_Witness ==
    /\ vout # NoneObj
    /\ \E p \in 1..Len(vout.passes) :
          LET pass == vout.passes[p]
          IN /\ Len(pass.steps) = 2
             /\ pass.steps[1].ran /\ ~pass.steps[1].valid
             /\ ~pass.steps[2].ran
             /\ Mentions(actions[pass.steps[2].action].depends, pass.steps[1].action)
             /\ contains_action(pass.result, pass.steps[1].action)

\* C7: Form.validate without a field name runs field validation on exactly
\* the fields whose page is less than or equal to the given page, in
\* field-list order; with a field name it validates only that field, and
\* only if that field's page is less than or equal to the given page.
C7_PageSelectsFields ==
    [][vout' # vout =>
          LET page == vout'.call.page
              field_name == vout'.call.field_name
          IN IF field_name \in {NoneV, ""}
             THEN /\ vout'.error = NoneV
                  /\ FieldsOf(vout') = SelectSeq(vform.lFields, LAMBDA f : f.page <= page)
             ELSE IF \E f \in Range(vform.lFields) : f.key = field_name
             THEN /\ vout'.error = NoneV
                  /\ FieldsOf(vout') =
                        IF NamedField(vform, field_name).page <= page
                        THEN <<NamedField(vform, field_name)>> ELSE <<>>
             ELSE vout'.error = "ValidatorException" /\ FieldsOf(vout') = <<>>]_vars

\* a call without a field name that validated one field of the page and
\* left out a field of a later page
C7_Witness ==
    /\ vout # NoneObj
    /\ vout.call.field_name = NoneV
    /\ Len(vform.lFields) = 2
    /\ vform.lFields[1].page > vout.call.page
    /\ vform.lFields[2].page = vout.call.page
    /\ FieldsOf(vout) = <<vform.lFields[2]>>

(* ---------------------------------------------------------------------- *)
(* Properties of FormSet._merge, checked under SpecMerge                   *)
(* ---------------------------------------------------------------------- *)
\* the FormSet a _merge call was made on, before and after the call
MergeSelf == HeldUnder(hFormSets, defaultFormSet, got'.self)
MergeSelfAfter == HeldUnder(hFormSets', defaultFormSet', got'.self)

C13_MergeByName ==
    [][(got' # got /\ got'.depends # <<"None">>) =>
          LET general == HeldUnder(hFormSets, defaultFormSet, got'.depends)
          IN \A name \in DOMAIN general.forms :
                /\ name \in DOMAIN MergeSelfAfter.forms
                /\ IF name \in DOMAIN MergeSelf.forms
                   THEN LET own == forms[MergeSelf.forms[name]]
                            gen == forms[general.forms[name]]
                            after == forms'[MergeSelfAfter.forms[name]]
                        IN /\ MergeSelfAfter.forms[name] = MergeSelf.forms[name]
                           /\ DOMAIN after.hFields = (DOMAIN own.hFields) \cup (DOMAIN gen.hFields)
                           /\ \A k \in DOMAIN own.hFields :
                                 after.hFields[k] = own.hFields[k] /\ own.hFields[k] \in Range(after.lFields)
                           /\ \A k \in (DOMAIN gen.hFields) \ (DOMAIN own.hFields) :
                                 after.hFields[k] = gen.hFields[k] /\ gen.hFields[k] \in Range(after.lFields)
                   ELSE MergeSelfAfter.forms[name] = general.forms[name]]_vars
\* C30 (as claimed): every own Field of every Form is processed with the
\* global constants as first argument (and the FormSet's constants as
\* second), whether its Form is processed by the FormSet directly or as the
\* unprocessed parent of another Form.
C30_FieldsGetGlobalFirst ==
    \A f \in DOMAIN procLog :
        \A i \in 1..Len(procLog[f]) : procLog[f][i] = "global"

====
